---- MODULE Spec2Model ----
(***************************************************************************)
(* Data-Dashboard: the write path (data_pipeline.py, sensor_api_server.py, *)
(* com4_reader.py) and the read path (csv_reader.py) over the shared       *)
(* Database/ directory tree.                                               *)
(*                                                                         *)
(* Time is kept in whole seconds since the Unix epoch.  A datetime is the  *)
(* record of its calendar fields; a formatted time string is the tuple of  *)
(* those fields followed by its zone suffix.  The MJD, a float in the      *)
(* code, is kept exactly as <<whole days, seconds of the day>>.            *)
(***************************************************************************)
EXTENDS Integers, Sequences, FiniteSets, TLC

\* ------------------------------------------------------------------ bounds

\* The wall clock at the start: 2025-01-31 15:00:00 IST (09:30:00 UTC).
StartEpoch == 1738315800

\* The wall clock advances in steps of twelve hours, at most MaxTicks times,
\* so that it crosses midnight, the end of January and the UTC/IST date gap.
MaxTicks == 1

\* Handler runs that reach the storage layer.
MaxWrites == 2

\* I/O faults met over a run.
MaxFaults == 1

\* Required fields a push request may lack (besides lacking all of them).
MaxMissing == 1

TickSeconds == 12 * 60 * 60

\* --------------------------------------------------------------- calendar

\* pytz.timezone('Asia/Kolkata') for modern dates: UTC+05:30.
IST == (5 * 60 + 30) * 60

UTC == 0

\* The calendar fields of the instant `epoch` seen at UTC offset `offset`
\* (datetime.fromtimestamp(epoch, tz) / datetime.now(tz) / astimezone(tz)).
datetime(epoch, offset) ==
    LET fields(sod, era, yoe, doy, mp) ==
            [year   |-> yoe + era * 400 + (IF mp < 10 THEN 0 ELSE 1),
             month  |-> IF mp < 10 THEN mp + 3 ELSE mp - 9,
             day    |-> doy - ((153 * mp + 2) \div 5) + 1,
             hour   |-> sod \div 3600,
             minute |-> (sod % 3600) \div 60,
             second |-> sod % 60,
             epoch  |-> epoch, offset |-> offset]
        of_doy(sod, era, yoe, doy) ==
            fields(sod, era, yoe, doy, (5 * doy + 2) \div 153)
        of_yoe(sod, era, doe, yoe) ==
            of_doy(sod, era, yoe, doe - (365 * yoe + (yoe \div 4) - (yoe \div 100)))
        of_doe(sod, era, doe) ==
            of_yoe(sod, era, doe,
                   (doe - (doe \div 1460) + (doe \div 36524) - (doe \div 146096)) \div 365)
        of_era(sod, z, era) == of_doe(sod, era, z - era * 146097)
        of_days(sod, z) == of_era(sod, z, z \div 146097)
        of_seconds(t) == of_days(t % 86400, (t \div 86400) + 719468)
    IN  of_seconds(epoch + offset)

\* dt.astimezone(tz): the same instant, the fields of another zone.
astimezone(dt, offset) == datetime(dt.epoch, offset)

\* strftime('%Y-%m-%d %H:%M:%S <suffix>')
strftime_full(dt, suffix) ==
    <<dt.year, dt.month, dt.day, dt.hour, dt.minute, dt.second, suffix>>

\* The character codes of the English month names, strftime('%B').
MonthChars ==
    << <<74, 97, 110, 117, 97, 114, 121>>,
       <<70, 101, 98, 114, 117, 97, 114, 121>>,
       <<77, 97, 114, 99, 104>>,
       <<65, 112, 114, 105, 108>>,
       <<77, 97, 121>>,
       <<74, 117, 110, 101>>,
       <<74, 117, 108, 121>>,
       <<65, 117, 103, 117, 115, 116>>,
       <<83, 101, 112, 116, 101, 109, 98, 101, 114>>,
       <<79, 99, 116, 111, 98, 101, 114>>,
       <<78, 111, 118, 101, 109, 98, 101, 114>>,
       <<68, 101, 99, 101, 109, 98, 101, 114>> >>

\* The decimal digits of n, zero-padded to `width` characters, as codes.
RECURSIVE Digits(_, _)
Digits(n, width) ==
    IF width = 0 THEN <<>> ELSE Append(Digits(n \div 10, width - 1), 48 + (n % 10))

\* strftime('%B_%Y'): month name, '_', four-digit year.
strftime_month_year(dt) == MonthChars[dt.month] \o <<95>> \o Digits(dt.year, 4)

\* strftime('%Y-%m-%d')
strftime_date(dt) ==
    Digits(dt.year, 4) \o <<45>> \o Digits(dt.month, 2) \o <<45>> \o Digits(dt.day, 2)

\* ------------------------------------------------------------ the MJD

\* The formula without the carry of the months from March on.
datetime_to_mjd_no_carry(dt) ==
    <<367 * dt.year - ((7 * dt.year) \div 4) + ((275 * dt.month) \div 9)
      + dt.day + ((3442027 - 4800001) \div 2),
      dt.hour * 3600 + dt.minute * 60 + dt.second>>

\* The formula with every month counted as 30 days.
datetime_to_mjd_flat_months(dt) ==
    <<367 * dt.year - ((7 * (dt.year + ((dt.month + 9) \div 12))) \div 4)
      + 30 * dt.month + dt.day + ((3442027 - 4800001) \div 2),
      dt.hour * 3600 + dt.minute * 60 + dt.second>>

\* datetime_to_mjd: 367*Y - int(7*(Y + int((M+9)/12))/4) + int(275*M/9) + D
\* + 1721013.5 + (h + m/60 + s/3600)/24 - 2400000.5.  The two half-day
\* constants cancel to the whole number -678987; the fraction of the day is
\* kept as seconds.
datetime_to_mjd(dt) ==
    LET n == 367 * dt.year
             - ((7 * (dt.year + ((dt.month + 9) \div 12))) \div 4)
             + ((275 * dt.month) \div 9)
             + dt.day
    IN  <<n + ((3442027 - 4800001) \div 2),
          dt.hour * 3600 + dt.minute * 60 + dt.second>>

\* ------------------------------------------------------- the time triple

\* The time triple both resolvers return.
time_data(dt_ist) ==
    LET triple(dt_utc) ==
            [exc     |-> "none",
             ist_str |-> strftime_full(dt_ist, "IST"),
             utc_str |-> strftime_full(dt_utc, "UTC"),
             mjd     |-> datetime_to_mjd(dt_utc)]
    IN  triple(astimezone(dt_ist, UTC))

\* What a call that raised returns to the handler.
raised(exc) == [exc |-> exc]

\* The 'timestamp' form value of a push request.  An integer beyond the
\* model's 32-bit integers is given by the range the C conversion puts it in:
\*   "ok"            a value datetime.fromtimestamp converts (v),
\*   "year"          gmtime succeeds, the year exceeds 9999: ValueError,
\*   "gmtime"        gmtime fails: OSError,
\*   "time_t"        outside the platform time_t: OverflowError.
OldEpoch == StartEpoch - 3 * 24 * 60 * 60

\* An epoch of the years in which the zone stood at +06:30:
\* 17:46:40 UTC on 1944-08-25, the 9260th day before 1970-01-01.
WarEpoch == (17 * 60 + 46) * 60 + 40 - 9260 * 86400

RawEpochs ==
    { [kind |-> "text", range |-> "none",   v |-> 0],
      [kind |-> "int",  range |-> "ok",     v |-> OldEpoch],
      [kind |-> "int",  range |-> "ok",     v |-> WarEpoch],
      [kind |-> "int",  range |-> "year",   v |-> 0],
      [kind |-> "int",  range |-> "gmtime", v |-> 0],
      [kind |-> "int",  range |-> "time_t", v |-> 0] }

\* The UTC offset pytz.timezone('Asia/Kolkata') gives the instant `epoch`
\* (tz database): +05:30 since 1945-10-14 17:30:00 UTC, before it +06:30
\* in 1941-42 and 1942-45, +05:30 from 1906 on, and Madras time +05:21:10.
utcoffset(epoch) ==
    IF epoch >= -764145000 THEN IST
    ELSE IF epoch >= -862637400 THEN IST + 3600
    ELSE IF epoch >= -872058600 THEN IST
    ELSE IF epoch >= -891581400 THEN IST + 3600
    ELSE IF epoch >= -2019705670 THEN IST
    ELSE (5 * 60 + 21) * 60 + 10

\* int(form_data['timestamp']) followed by datetime.fromtimestamp(.., tz=IST):
\* the exception it ends with, "none" when it returns.
fromtimestamp_exc(form_data) ==
    IF "timestamp" \notin DOMAIN form_data THEN "KeyError"
    ELSE LET raw == form_data["timestamp"]
         IN  CASE raw.kind # "int"       -> "ValueError"
               [] raw.range = "ok"       -> "none"
               [] raw.range = "year"     -> "ValueError"
               [] raw.range = "gmtime"   -> "OSError"
               [] OTHER                  -> "OverflowError"

\* except (KeyError, ValueError, OSError)
get_time_data_caught == {"KeyError", "ValueError", "OSError"}

\* get_time_data(form_data), with `now` the server clock it would read.
get_time_data(form_data, now) ==
    LET at(arduino_epoch) ==
            time_data(datetime(arduino_epoch, utcoffset(arduino_epoch)))
        resolved(exc) ==
            IF exc = "none" THEN at(form_data["timestamp"].v)
            ELSE IF exc \in get_time_data_caught THEN time_data(datetime(now, IST))
            ELSE raised(exc)
    IN  resolved(fromtimestamp_exc(form_data))

\* The days from 1970-01-01 to the civil date y-m-d.
days_from_civil(y, m, d) ==
    LET mp  == IF m > 2 THEN m - 3 ELSE m + 9
        doy == ((153 * mp + 2) \div 5) + d - 1
        of_yoe(era, yoe) ==
            era * 146097 + (yoe * 365 + (yoe \div 4) - (yoe \div 100) + doy) - 719468
        of_era(yy, era) == of_yoe(era, yy - era * 400)
        of_year(yy) == of_era(yy, yy \div 400)
    IN  of_year(IF m <= 2 THEN y - 1 ELSE y)

DaysInMonth(y, m) ==
    IF m = 2
    THEN (IF (y % 4 = 0 /\ y % 100 # 0) \/ y % 400 = 0 THEN 29 ELSE 28)
    ELSE IF m \in {4, 6, 9, 11} THEN 30 ELSE 31

\* datetime.strptime(timestamp_str, '%Y-%m-%d %H:%M:%S') on a device value
\* [kind, fields]: "TypeError" for a value that is no string, "ValueError"
\* for a string of another shape or with a field out of range.
strptime_exc(timestamp_str) ==
    IF timestamp_str.kind # "str" THEN "TypeError"
    ELSE LET f == timestamp_str.fields
         IN  IF /\ Len(f) = 6
                /\ f[1] \in 1..9999 /\ f[2] \in 1..12
                /\ f[3] \in 1..DaysInMonth(f[1], f[2])
                /\ f[4] \in 0..23 /\ f[5] \in 0..59 /\ f[6] \in 0..59
             THEN "none" ELSE "ValueError"

\* IST.localize(dt_naive): the zone is attached, the fields are kept.
localize(f, offset) ==
    datetime(days_from_civil(f[1], f[2], f[3]) * 86400
             + f[4] * 3600 + f[5] * 60 + f[6] - offset, offset)

\* datetime.now() is naive local time; the lab host runs on IST.
naive_now(now) ==
    LET dt == datetime(now, IST)
    IN  <<dt.year, dt.month, dt.day, dt.hour, dt.minute, dt.second>>

\* process_timestamp(timestamp_str), with `now` the server clock it reads.
\* A falsy value (None, '') takes the else branch without parsing.
process_timestamp(timestamp_str, now) ==
    LET dt_naive ==
            IF timestamp_str.kind = "none" THEN naive_now(now)
            ELSE IF strptime_exc(timestamp_str) = "none" THEN timestamp_str.fields
            ELSE naive_now(now)
    IN  time_data(localize(dt_naive, IST))


\* ---------------------------------------------------- the partition store

\* A file of Database/ is [dir, month_year, name]: the category directory
\* and the file name as their '_'-separated parts (the name's last part is
\* the date, before '.csv'), the month folder as its characters.  `files`
\* maps the existing files to their lines, `folders` is the set of existing
\* month folders.
\* One directory and one file name for every category.
csv_path_shared(data_type, month_year, today) ==
    [dir        |-> <<"data">>,
     month_year |-> month_year,
     name       |-> <<"data", today>>]

csv_path(data_type, month_year, today) ==
    [dir        |-> data_type \o <<"data">>,
     month_year |-> month_year,
     name       |-> data_type \o <<"data", today>>]

dir_path_of(data_type, month_year) ==
    [dir |-> data_type \o <<"data">>, month_year |-> month_year]

\* What an I/O step can end with: no error, os.makedirs fails, open() fails,
\* or the write fails after open() has created the file.
Faults == {"none", "makedirs", "open", "write"}

\* The file after open(filepath, 'a'): created empty when it was absent.
opened(files, filepath) ==
    IF filepath \in DOMAIN files THEN files
    ELSE [p \in DOMAIN files \cup {filepath} |->
             IF p = filepath THEN <<>> ELSE files[p]]

\* The file opened with mode 'w': what it held is lost.
appended_truncating(files, filepath, lines) ==
    [p \in DOMAIN files \cup {filepath} |->
        IF p = filepath THEN lines ELSE files[p]]

\* The file after the lines were written at its end.
appended(files, filepath, lines) ==
    [p \in DOMAIN files \cup {filepath} |->
        IF p = filepath
        THEN (IF p \in DOMAIN files THEN files[p] ELSE <<>>) \o lines
        ELSE files[p]]

\* The with block with the existence test dropped: a header on every append.
server_rows_header_always(file_exists, headers, data_row) ==
    <<headers, data_row>>

\* sensor_api_server.write_to_csv, the body of the with block: the header
\* goes first when os.path.exists said the file was absent.
server_rows(file_exists, headers, data_row) ==
    IF ~file_exists THEN <<headers, data_row>> ELSE <<data_row>>

\* write_to_csv from os.makedirs on, meeting `fault`: every exception is
\* caught and answered False.
server_append(dir_path, filepath, headers, data_row, fault, files, folders) ==
    LET write(file_exists) ==
          CASE fault = "makedirs" ->
               [ok |-> FALSE, exc |-> "none", filepath |-> filepath,
                files |-> files, folders |-> folders]
          [] fault = "open" ->
               [ok |-> FALSE, exc |-> "none", filepath |-> filepath,
                files |-> files, folders |-> folders \cup {dir_path}]
          [] fault = "write" ->
               [ok |-> FALSE, exc |-> "none", filepath |-> filepath,
                files |-> opened(files, filepath),
                folders |-> folders \cup {dir_path}]
          [] OTHER ->
               [ok |-> TRUE, exc |-> "none", filepath |-> filepath,
                files |-> appended(files, filepath,
                                   server_rows(file_exists, headers, data_row)),
                folders |-> folders \cup {dir_path}]
    IN  write(filepath \in DOMAIN files)

\* The partition taken from the row's own local timestamp.
server_write_to_csv_by_row(data_type, headers, data_row, now, fault, files, folders) ==
    LET named(month_year, today) ==
            server_append(dir_path_of(data_type, month_year),
                          csv_path(data_type, month_year, today),
                          headers, data_row, fault, files, folders)
        on(dt) == named(strftime_month_year(dt), strftime_date(dt))
    IN  on([year |-> data_row[1][1], month |-> data_row[1][2],
            day |-> data_row[1][3]])

\* sensor_api_server.write_to_csv(data_type, headers, data_row), reading the
\* clock at `now` and meeting `fault`.  Every exception is caught.
server_write_to_csv(data_type, headers, data_row, now, fault, files, folders) ==
    LET named(month_year, today) ==
            server_append(dir_path_of(data_type, month_year),
                          csv_path(data_type, month_year, today),
                          headers, data_row, fault, files, folders)
        on(dt) == named(strftime_month_year(dt), strftime_date(dt))
    IN  on(datetime(now, IST))

\* data_pipeline.get_csv_path(): the clock is read twice, at now1 for the
\* month folder and at now2 for the file name; os.makedirs is not guarded.
get_csv_path(now1, now2, fault, folders) ==
    LET month_year == strftime_month_year(datetime(now1, IST))
        today      == strftime_date(datetime(now2, IST))
        data_type  == <<"Temp", "Humidity">>
    IN  IF fault = "makedirs"
        THEN [exc |-> "OSError", folders |-> folders]
        ELSE [exc |-> "none",
              filepath |-> csv_path(data_type, month_year, today),
              folders |-> folders \cup {dir_path_of(data_type, month_year)}]

pipeline_headers == <<"timestamp", "UTC_timestamp", "MJD", "T1", "H1", "T2", "H2">>

\* csv.DictWriter.writerow(data_row): the values in the order of fieldnames.
dict_row(fieldnames, data_row) ==
    [i \in 1..Len(fieldnames) |-> data_row[fieldnames[i]]]

\* data_pipeline.write_to_csv, the body of the with block.
pipeline_rows(file_exists, headers, data_row) ==
    IF ~file_exists THEN <<headers, dict_row(headers, data_row)>>
    ELSE <<dict_row(headers, data_row)>>

\* data_pipeline.write_to_csv(filepath, data_row) meeting `fault`; IOError
\* from open() or from a write is caught.
pipeline_write_to_csv(filepath, data_row, fault, files) ==
    LET headers     == pipeline_headers
        file_exists == filepath \in DOMAIN files
    IN  CASE fault = "open"  -> [ok |-> FALSE, files |-> files]
          [] fault = "write" -> [ok |-> FALSE, files |-> opened(files, filepath)]
          [] OTHER ->
               [ok |-> TRUE,
                files |-> appended(files, filepath,
                                   pipeline_rows(file_exists, headers, data_row))]


\* ------------------------------------------------------- the push handler

required_photodiode == <<"P1", "P2", "P3", "P4", "P5">>

required_lasers == <<"X1", "X2", "Y1", "Y2", "Z1", "Z2", "D1", "D2">>

all_fields == required_photodiode \o required_lasers

time_headers == <<"timestamp", "UTC_timestamp", "MJD">>

\* The values a complete request carries, field by field in the order of
\* all_fields.
field_texts ==
    <<"0.1", "0.2", "0.3", "0.4", "0.5",
      "1.1", "1.2", "2.1", "2.2", "3.1", "3.2", "4.1", "4.2">>

\* The texts float() accepts; a numeric text stands for its number.
NumericTexts ==
    {"1.5", "0", "1", "2", "21.5", "40.0", "22.5", "41.0"}
    \cup {field_texts[i] : i \in 1..Len(field_texts)}

float_exc(text) == IF text \in NumericTexts THEN "none" ELSE "ValueError"

\* The list cut to its first element: only one absent field is reported.
missing_fields_first_only(form) ==
    LET all == SelectSeq(all_fields, LAMBDA f : f \notin DOMAIN form)
    IN  IF all = <<>> THEN <<>> ELSE <<all[1]>>

\* [field for field in all_fields if field not in request.form]
missing_fields(form) == SelectSeq(all_fields, LAMBDA f : f \notin DOMAIN form)

\* The fields whose float() raises, in the order of the comprehension; the
\* first one ends it.
bad_fields(form) == SelectSeq(all_fields, LAMBDA f : float_exc(form[f]) # "none")

\* f"Missing data fields: {', '.join(missing_fields)}"
missing_msg(missing) == <<"Missing data fields: ">> \o missing

\* f"Invalid numeric value in form data: {e}", e the ValueError of float():
\* "could not convert string to float: '<the text>'".
invalid_msg(form, bad) ==
    <<"Invalid numeric value in form data: ",
      "could not convert string to float: ", form[bad[1]]>>

\* The values taken in the reverse order of the fields.
sensor_row_reversed(td, form, fields) ==
    <<td.ist_str, td.utc_str, td.mjd>>
    \o [i \in 1..Len(fields) |-> form[fields[Len(fields) + 1 - i]]]

\* [time_data[...]] + [sensor_data[field] for field in fields]
sensor_row(td, form, fields) ==
    <<td.ist_str, td.utc_str, td.mjd>> \o [i \in 1..Len(fields) |-> form[fields[i]]]

photodiode_row(td, form) == sensor_row(td, form, required_photodiode)

\* The Lasers row stamped by a second resolution of the time, a second on.
lasers_row_resolved_again(td, form) ==
    sensor_row([td EXCEPT !.mjd = <<td.mjd[1], td.mjd[2] + 1>>], form, required_lasers)

lasers_row(td, form) == sensor_row(td, form, required_lasers)

\* Step 5 of save_sensor_data.
send_response(photodiode_ok, lasers_ok, td) ==
    IF photodiode_ok /\ lasers_ok
    THEN [status |-> 200, body |-> <<"Data saved successfully at ", td.ist_str>>]
    ELSE [status |-> 500, body |-> <<"Failed to write data to one or both CSV files.">>]

NoTime == raised("not_called")

write_result(data_type, w) ==
    [data_type |-> data_type, ok |-> w.ok, filepath |-> w.filepath]

\* save_sensor_data() on request.form = form.  The clock reads `now` in
\* get_time_data, nowP in the Photodiode write and nowL in the Lasers write;
\* faultP and faultL are what the two writes meet.  An exception that leaves
\* the handler is answered 500 by the framework.
save_sensor_data(form, now, nowP, nowL, faultP, faultL, files, folders) ==
    LET rejected(status, body) ==
            [status |-> status, body |-> body, exc |-> "none", time |-> NoTime,
             writes |-> <<>>, files |-> files, folders |-> folders]
        \* step 5: the response, from the outcomes p and l of the two writes
        responded(td, p, l, r) ==
            [status |-> r.status, body |-> r.body, exc |-> "none", time |-> td,
             writes |-> <<write_result("Photodiode", p), write_result("Lasers", l)>>,
             files |-> l.files, folders |-> l.folders]
        respond(td, p, l) == responded(td, p, l, send_response(p.ok, l.ok, td))
        \* step 4: the Lasers write, on what the Photodiode write left
        lasers(td, p) ==
            respond(td, p,
                    server_write_to_csv(<<"Lasers">>,
                        time_headers \o required_lasers,
                        lasers_row(td, form), nowL, faultL, p.files, p.folders))
        \* step 3: the Photodiode write
        photodiode(td) ==
            IF td.exc # "none"
            THEN [status |-> 500, body |-> <<"Internal Server Error">>,
                  exc |-> td.exc, time |-> td, writes |-> <<>>,
                  files |-> files, folders |-> folders]
            ELSE lasers(td,
                        server_write_to_csv(<<"Photodiode">>,
                            time_headers \o required_photodiode,
                            photodiode_row(td, form), nowP, faultP, files, folders))
        \* step 2: the values are converted, then the time is resolved once
        converted(bad) ==
            IF bad # <<>>
            THEN rejected(400, invalid_msg(form, bad))
            ELSE photodiode(get_time_data(form, now))
        \* step 1: the fields are validated
        validated(missing) ==
            IF missing # <<>>
            THEN rejected(400, missing_msg(missing))
            ELSE converted(bad_fields(form))
    IN  IF DOMAIN form = {}
        THEN rejected(400, <<"Request body cannot be empty.">>)
        ELSE validated(missing_fields(form))

\* The legacy path answered by a redirect, nothing stored.
save_sensor_data_legacy_redirect(form, now, nowP, nowL, faultP, faultL, files, folders) ==
    [status |-> 308, body |-> <<"/api/sensor-data">>, exc |-> "none",
     time |-> NoTime, writes |-> <<>>, files |-> files, folders |-> folders]

\* save_sensor_data_legacy(): an info line is logged, then
\* `return save_sensor_data()` on the same request.
save_sensor_data_legacy(form, now, nowP, nowL, faultP, faultL, files, folders) ==
    save_sensor_data(form, now, nowP, nowL, faultP, faultL, files, folders)

\* The POST routes of the Flask app and the view function of each.
Routes == {"/api/sensor-data", "/phpfiles/save_val.php"}

view_function(route, form, now, nowP, nowL, faultP, faultL, files, folders) ==
    IF route = "/phpfiles/save_val.php"
    THEN save_sensor_data_legacy(form, now, nowP, nowL, faultP, faultL, files, folders)
    ELSE save_sensor_data(form, now, nowP, nowL, faultP, faultL, files, folders)

\* ---------------------------------------------------------- the poll path

POLL_INTERVAL == 120

\* com4_reader.get_ist_time().strftime('%Y-%m-%d %H:%M:%S') at instant t.
ist_timestamp(t) ==
    LET formatted(dt) ==
            [kind |-> "str",
             fields |-> <<dt.year, dt.month, dt.day, dt.hour, dt.minute, dt.second>>]
    IN  formatted(datetime(t, IST))

\* What fetch_one returns: None, or the four floats and the read time.
NoData == [kind |-> "none"]

reading(t) ==
    [kind |-> "data", T1 |-> "21.5", H1 |-> "40.0", T2 |-> "22.5", H2 |-> "41.0",
     TIMESTAMPS |-> ist_timestamp(t)]

MAX_RETRIES == 3

\* What serial.Serial(...) meets on each attempt it may come to.
ConnectOutcomes == [1..MAX_RETRIES -> {"ok", "SerialException"}]

\* get_com4_reader() that goes through every attempt, also after the port
\* has been opened.
get_com4_reader_no_break(outcomes) ==
    [reader |-> IF \E i \in 1..MAX_RETRIES : outcomes[i] = "ok"
                THEN "fetch_one" ELSE "dummy_fetch",
     attempts |-> MAX_RETRIES]

\* for attempt in range(MAX_RETRIES), from `attempt` on: the port opens and
\* the loop is left (break), or SerialException is caught: before the last
\* attempt the loop goes on after two seconds, on the last attempt
\* dummy_fetch is returned.  A loop that ends without either leaves ser None
\* under fetch_one.  attempts counts the calls of serial.Serial.
RECURSIVE connect_from(_, _)
connect_from(outcomes, attempt) ==
    IF attempt >= MAX_RETRIES
    THEN [reader |-> "fetch_one_unconnected", attempts |-> attempt]
    ELSE IF outcomes[attempt + 1] = "ok"
    THEN [reader |-> "fetch_one", attempts |-> attempt + 1]
    ELSE IF attempt < MAX_RETRIES - 1
    THEN connect_from(outcomes, attempt + 1)
    ELSE [reader |-> "dummy_fetch", attempts |-> attempt + 1]

\* get_com4_reader(): the reader it returns and the attempts it made.  The
\* two-second sleeps between attempts are not counted on the clock.
get_com4_reader(outcomes) ==
    connect_from(outcomes, 0)

\* One ','-separated part of a device line: its text and the unit sign that
\* follows it ("" for none, "C" or "%").
Part(text, unit) == [text |-> text, unit |-> unit]

\* What one READ? meets: ser.write or ser.readline raises, or readline
\* returns a line, given stripped and split at ','.  An empty line (the
\* read timed out) is one empty part.
DeviceInputs ==
    {[io |-> "SerialException", line |-> <<>>]} \cup
    {[io |-> "none", line |-> l] : l \in
        { <<Part("", "")>>,
          <<Part("21.5", ""), Part("40.0", ""), Part("22.5", ""), Part("41.0", "")>>,
          <<Part("21.5", ""), Part("ERR", ""), Part("22.5", ""), Part("41.0", "")>>,
          <<Part("1", ""), Part("21.5", "C"), Part("1", ""), Part("40.0", "%"),
            Part("2", ""), Part("22.5", "C"), Part("2", ""), Part("41.0", "%")>>,
          <<Part("1", ""), Part("21.5", "C"), Part("1", ""), Part("ERR", "%"),
            Part("2", ""), Part("22.5", "C"), Part("2", ""), Part("41.0", "%")>>,
          <<Part("21.5", ""), Part("40.0", ""), Part("22.5", ""),
            Part("41.0", ""), Part("0", "")>> }}

\* float(p.strip()) on a part: the unit sign is no part of a number.
part_float_exc(part) ==
    IF part.unit = "" THEN float_exc(part.text) ELSE "ValueError"

\* normalize_line(line): four numbers are kept as they are; of eight or more
\* parts the second, fourth, sixth and eighth are kept without their unit
\* signs; anything else gives '' (no part).
normalize_line(line) ==
    IF Len(line) = 4 /\ \A i \in 1..4 : part_float_exc(line[i]) = "none"
    THEN line
    ELSE IF Len(line) >= 8
    THEN [i \in 1..4 |-> Part(line[2 * i].text, "")]
    ELSE <<>>

\* fetch_one() / dummy_fetch(): None, or the four floats and the time of the
\* read.  Every exception is caught inside.
fetch_one(which, input, now) ==
    LET parsed(data_list) ==
            IF data_list # <<>> /\ Len(data_list) = 4
            THEN IF \A i \in 1..4 : part_float_exc(data_list[i]) = "none"
                 THEN [kind |-> "data",
                       T1 |-> data_list[1].text, H1 |-> data_list[2].text,
                       T2 |-> data_list[3].text, H2 |-> data_list[4].text,
                       TIMESTAMPS |-> ist_timestamp(now)]
                 ELSE NoData
            ELSE NoData
    IN  IF which # "fetch_one" THEN NoData
        ELSE IF input.io # "none" THEN NoData
        ELSE parsed(normalize_line(input.line))

\* The None is dereferenced (com4_data.get on None): AttributeError.
no_data_dereferenced(files, folders) ==
    [exc |-> "AttributeError", wrote |-> "raised", files |-> files, folders |-> folders]

\* The else branch of `if com4_data:`: a warning is logged, nothing else.
no_data(files, folders) ==
    [exc |-> "none", wrote |-> "no_data", files |-> files, folders |-> folders]

\* One pass of the while loop of main() on com4_data, up to the sleep.  The
\* clock reads `now` in process_timestamp, now1 and now2 in get_csv_path.
\* exc is the exception that leaves the loop, "none" when the pass ends.
poll_cycle(com4_data, now, now1, now2, faultDir, faultFile, files, folders) ==
    IF com4_data.kind = "none"
    THEN no_data(files, folders)
    ELSE
    LET data_row(td) ==
            [h \in {pipeline_headers[i] : i \in 1..Len(pipeline_headers)} |->
                CASE h = "timestamp"     -> td.ist_str
                  [] h = "UTC_timestamp" -> td.utc_str
                  [] h = "MJD"           -> td.mjd
                  [] OTHER               -> com4_data[h]]
        \* the outcome w of write_to_csv is printed
        written(td, path, w) ==
            [exc |-> "none", wrote |-> IF w.ok THEN "saved" ELSE "failed",
             filepath |-> path.filepath, time |-> td,
             files |-> w.files, folders |-> path.folders]
        \* csv_file = get_csv_path(); write_to_csv(csv_file, data_row)
        routed(td, path) ==
            IF path.exc # "none"
            THEN [exc |-> path.exc, wrote |-> "raised",
                  files |-> files, folders |-> path.folders]
            ELSE written(td, path,
                         pipeline_write_to_csv(path.filepath, data_row(td),
                                               faultFile, files))
        \* time_data = process_timestamp(com4_data['TIMESTAMPS'])
        resolved(td) == routed(td, get_csv_path(now1, now2, faultDir, folders))
    IN  resolved(process_timestamp(com4_data.TIMESTAMPS, now))


\* ---------------------------------------------------------- the read path

\* Python's order on str, on character codes.
RECURSIVE str_less(_, _)
str_less(a, b) ==
    IF b = <<>> THEN FALSE
    ELSE IF a = <<>> THEN TRUE
    ELSE IF a[1] # b[1] THEN a[1] < b[1]
    ELSE str_less(Tail(a), Tail(b))

\* The part of a file's full path in which the files of one glob differ:
\* '<month folder>/' and the date at the end of the name (the base
\* directory, the category directory and the name's prefix before it are
\* the same for all of them, and so is '.csv' after the fixed-width date).
path_chars(p) == p.month_year \o <<47>> \o p.name[Len(p.name)]

\* sorted(paths): ascending on the path strings.
RECURSIVE sorted(_)
sorted(S) ==
    IF S = {} THEN <<>>
    ELSE LET first == CHOOSE x \in S :
                        \A y \in S \ {x} : str_less(path_chars(x), path_chars(y))
         IN  <<first>> \o sorted(S \ {first})

\* glob.glob(DATASET_BASE_DIR/data_type/*/{data_type}_*.csv)
glob(data_type, files) ==
    {p \in DOMAIN files :
        /\ p.dir = data_type
        /\ Len(p.name) > Len(data_type)
        /\ SubSeq(p.name, 1, Len(data_type)) = data_type}

IsDigit(c) == c \in 48..57

\* extract_date_from_filename(filename): strptime of the last '_' part,
\* '.csv' removed, with '%Y-%m-%d'; the date as <<year, month, day>>.
extract_date_from_filename(p) ==
    LET c == p.name[Len(p.name)]
        num(i, j) == IF j = i + 3
                     THEN (c[i] - 48) * 1000 + (c[i + 1] - 48) * 100
                          + (c[i + 2] - 48) * 10 + (c[i + 3] - 48)
                     ELSE (c[i] - 48) * 10 + (c[i + 1] - 48)
    IN  IF /\ Len(c) = 10
           /\ c[5] = 45 /\ c[8] = 45
           /\ \A i \in {1, 2, 3, 4, 6, 7, 9, 10} : IsDigit(c[i])
           /\ num(1, 4) >= 1
           /\ num(6, 7) \in 1..12
           /\ num(9, 10) \in 1..DaysInMonth(num(1, 4), num(6, 7))
        THEN [exc |-> "none", date |-> <<num(1, 4), num(6, 7), num(9, 10)>>]
        ELSE [exc |-> "ValueError"]

\* The order of datetime.date, a <= b.
date_le(a, b) ==
    \/ a[1] < b[1]
    \/ a[1] = b[1] /\ a[2] < b[2]
    \/ a[1] = b[1] /\ a[2] = b[2] /\ a[3] <= b[3]

\* None for a date argument.
None == <<>>

\* get_csv_files(data_type, start_date, end_date): the sorted paths, or the
\* exception extract_date_from_filename raised in the filter.
get_csv_files(data_type, start_date, end_date, files) ==
    LET in_range(d) == date_le(start_date, d) /\ date_le(d, end_date)
        filtered(found) ==
            IF start_date # None /\ end_date # None
            THEN IF \E p \in found : extract_date_from_filename(p).exc # "none"
                 THEN [exc |-> "ValueError", value |-> <<>>]
                 ELSE [exc |-> "none",
                       value |-> sorted({p \in found :
                           in_range(extract_date_from_filename(p).date)})]
            ELSE [exc |-> "none", value |-> sorted(found)]
    IN  filtered(glob(data_type, files))

\* A line of bytes that are no UTF-8 text; reading it raises
\* UnicodeDecodeError.
Undecodable == <<"\\xff\\xfe">>

decodable(lines) == \A i \in DOMAIN lines : lines[i] # Undecodable

\* read_csv_as_dicts(csv_file): csv.DictReader takes the first line as the
\* field names and yields one dict per later line; an empty file has no
\* field names, the TypeError is caught and [] returned, and so is the
\* UnicodeDecodeError of a file that is no text.
read_csv_as_dicts(lines) ==
    IF lines = <<>> \/ ~decodable(lines) THEN <<>>
    ELSE [i \in 1..(Len(lines) - 1) |->
             [fieldnames |-> lines[1], values |-> lines[i + 1]]]

\* data.extend(read_csv_as_dicts(f)) for f in paths
RECURSIVE extend_all(_, _)
extend_all(paths, files) ==
    IF paths = <<>> THEN <<>>
    ELSE read_csv_as_dicts(files[paths[1]]) \o extend_all(Tail(paths), files)

\* read_data_by_range(data_type, start_date, end_date)
read_data_by_range(data_type, start_date, end_date, files) ==
    LET read(got) ==
            IF got.exc # "none"
            THEN [exc |-> got.exc, paths |-> <<>>, value |-> <<>>]
            ELSE [exc |-> "none", paths |-> got.value,
                  value |-> extend_all(got.value, files)]
    IN  read(get_csv_files(data_type, start_date, end_date, files))

\* The path read_data_by_date builds: DATASET_BASE_DIR/data_type/
\* <date as '%B_%Y'>/<data_type>_<date as '%Y-%m-%d'>.csv, date given as
\* <<year, month, day>>.
date_path(data_type, date) ==
    LET on(dt) == [dir        |-> data_type,
                   month_year |-> strftime_month_year(dt),
                   name       |-> Append(data_type, strftime_date(dt))]
    IN  on([year |-> date[1], month |-> date[2], day |-> date[3]])

\* read_data_by_date(data_type, date): the rows of that file, [] when it
\* does not exist.
read_data_by_date(data_type, date, files) ==
    IF date_path(data_type, date) \in DOMAIN files
    THEN read_csv_as_dicts(files[date_path(data_type, date)])
    ELSE <<>>

\* get_most_recent(data_type): the last row of the last path, None without
\* files or without rows.
get_most_recent(data_type, files) ==
    LET last_row(last_file, rows) ==
            [exc |-> "none", paths |-> <<last_file>>,
             value |-> IF rows # <<>> THEN rows[Len(rows)] ELSE None]
        last_of(last_file) == last_row(last_file, read_csv_as_dicts(files[last_file]))
        most_recent(paths) ==
            IF paths = <<>>
            THEN [exc |-> "none", paths |-> <<>>, value |-> None]
            ELSE last_of(sorted({paths[i] : i \in 1..Len(paths)})[Len(paths)])
    IN  most_recent(get_csv_files(data_type, None, None, files).value)

\* row.get(name) of a DictReader row: None for a column the file lacks.
row_get(row, name) ==
    IF \E j \in DOMAIN row.fieldnames : row.fieldnames[j] = name
    THEN row.values[CHOOSE j \in DOMAIN row.fieldnames : row.fieldnames[j] = name]
    ELSE None

\* A timestamp cell is a formatted time string, the empty text <<>> or the
\* placeholder <<"IST">>, the only one of them that starts with 'IST'.
startswith_IST(timestamp) == Len(timestamp) = 1

\* .replace(' IST', '').strip(), and the removal of a trailing ' IST': the
\* zone of a formatted time string is dropped, the placeholder, which has
\* no blank before IST, is kept.
without_IST(timestamp) ==
    IF Len(timestamp) = 7 THEN SubSeq(timestamp, 1, 6) ELSE timestamp

\* datetime.strptime(timestamp_str, '%Y-%m-%d %H:%M:%S')
strptime_latest_exc(timestamp_str) ==
    IF Len(timestamp_str) = 6 THEN "none" ELSE "ValueError"

\* The condition of the list comprehension over the reader: "valid" leaves
\* out rows with a blank timestamp and rows whose timestamp starts with
\* 'IST', "nonblank" the former only, "all" none.
kept(filter, row) ==
    CASE filter = "valid" ->
           /\ row_get(row, "timestamp") # <<>>
           /\ ~startswith_IST(row_get(row, "timestamp"))
      [] filter = "nonblank" -> row_get(row, "timestamp") # <<>>
      [] OTHER -> TRUE

\* The three live readers from the open file on: the rows the filter
\* keeps, the last of them parsed; ValueError is caught and None returned.
latest_of_rows(latest_file, rows, filter) ==
    LET parsed(latest_row, timestamp_str) ==
            IF strptime_latest_exc(timestamp_str) # "none"
            THEN [exc |-> "none", latest_file |-> latest_file, value |-> None]
            ELSE [exc |-> "none", latest_file |-> latest_file,
                  value |-> [row |-> latest_row.values, timestamp |-> timestamp_str]]
        last_of(kept_rows) ==
            IF kept_rows = <<>>
            THEN [exc |-> "none", latest_file |-> latest_file, value |-> None]
            ELSE parsed(kept_rows[Len(kept_rows)],
                        without_IST(row_get(kept_rows[Len(kept_rows)], "timestamp")))
    IN  last_of(SelectSeq(rows, LAMBDA row : kept(filter, row)))

\* The three live readers up to the open file: the last of the sorted
\* paths of the category; every exception is caught and None returned.
latest_of(data_type, files, filter) ==
    LET opened_file(latest_file) ==
            IF ~decodable(files[latest_file])
            THEN [exc |-> "none", latest_file |-> latest_file, value |-> None]
            ELSE latest_of_rows(latest_file,
                                [i \in 1..(Len(files[latest_file]) - 1) |->
                                    [fieldnames |-> files[latest_file][1],
                                     values |-> files[latest_file][i + 1]]],
                                filter)
        last_path(paths) ==
            IF paths = <<>>
            THEN [exc |-> "none", latest_file |-> None, value |-> None]
            ELSE opened_file(paths[Len(paths)])
    IN  last_path(sorted(glob(data_type, files)))

\* get_latest_photodiode: rows with a blank timestamp and rows whose
\* timestamp starts with 'IST' are left out.
get_latest_photodiode(files) ==
    latest_of(<<"Photodiode", "data">>, files, "valid")

\* get_latest_temp_humidity: rows with a blank timestamp are left out.
get_latest_temp_humidity(files) ==
    latest_of(<<"Temp", "Humidity", "data">>, files, "nonblank")

\* get_latest_laser: rows = list(reader), no row is left out.
get_latest_laser(files) ==
    latest_of(<<"Lasers", "data">>, files, "all")

\* The live reader of a category.
get_latest(data_type, files) ==
    CASE data_type = <<"Photodiode", "data">> -> get_latest_photodiode(files)
      [] data_type = <<"Temp", "Humidity", "data">> -> get_latest_temp_humidity(files)
      [] OTHER -> get_latest_laser(files)

\* ------------------------------------------------------- the plot readers

\* The columns a plot reader takes from each row after the timestamp; the
\* result holds one list per column (T1, H1, T2, H2 under the keys temp1,
\* humidity1, temp2, humidity2, the others under the column's name).
plot_columns(data_type) ==
    IF data_type = <<"Temp", "Humidity", "data">>
    THEN <<"MJD", "T1", "H1", "T2", "H2">>
    ELSE <<"MJD", "X1", "X2", "Y1", "Y2", "Z1", "Z2", "D1", "D2">>

\* None in a list of numbers.
NoValue == "None"

has_column(row, name) == \E j \in DOMAIN row.fieldnames : row.fieldnames[j] = name

\* float(row.get(c)) if row.get(c) else None: the exception it raises.  The
\* MJD cell is a number or empty.
plot_value_exc(row, c) ==
    IF c = "MJD" \/ ~has_column(row, c) THEN "none"
    ELSE IF row_get(row, c) = "" THEN "none"
    ELSE float_exc(row_get(row, c))

\* float(row.get(c)) if row.get(c) else None: its value.
plot_value(row, c) ==
    IF ~has_column(row, c) THEN IF c = "MJD" THEN None ELSE NoValue
    ELSE IF c = "MJD" THEN row_get(row, c)
    ELSE IF row_get(row, c) = "" THEN NoValue
    ELSE row_get(row, c)

\* The timestamp of the row without its ' IST' is parsed by strptime.
plot_row_parsed(row) ==
    strptime_latest_exc(without_IST(row_get(row, "timestamp"))) = "none"

\* dt.strftime('%H:%M:%S')
strftime_time(row) == SubSeq(without_IST(row_get(row, "timestamp")), 4, 6)

\* The body of `for row in recent_data`: each list gets the value of a row
\* unless an exception was raised in that row before its append; the
\* exception is caught and the loop goes on.
plot_result(recent_data, columns) ==
    [time_points |-> Len(recent_data),
     time_fmt |-> LET rows == SelectSeq(recent_data, plot_row_parsed)
                  IN  [i \in 1..Len(rows) |-> strftime_time(rows[i])],
     data |-> [k \in 1..Len(columns) |->
                 LET rows == SelectSeq(recent_data, LAMBDA row :
                                 /\ plot_row_parsed(row)
                                 /\ \A j \in 1..k : plot_value_exc(row, columns[j]) = "none")
                 IN  [i \in 1..Len(rows) |-> plot_value(rows[i], columns[k])]]]

\* combined_data[-max_points:]
last_points(combined_data, max_points) ==
    IF Len(combined_data) <= max_points THEN combined_data
    ELSE SubSeq(combined_data, Len(combined_data) - max_points + 1, Len(combined_data))

\* for file_path in reversed(files): the rows of the file are put after the
\* rows already read, and the loop is left once max_points rows are there.
\* A file that is no text raises UnicodeDecodeError.
RECURSIVE combine_reversed(_, _, _, _)
combine_reversed(paths, combined_data, max_points, files) ==
    LET extended(rest, data) ==
            IF Len(data) >= max_points THEN [exc |-> "none", value |-> data]
            ELSE combine_reversed(rest, data, max_points, files)
        file_read(rest, lines) ==
            IF ~decodable(lines) THEN [exc |-> "UnicodeDecodeError", value |-> <<>>]
            ELSE extended(rest, combined_data \o
                                [i \in 1..(Len(lines) - 1) |->
                                    [fieldnames |-> lines[1], values |-> lines[i + 1]]])
    IN  IF paths = <<>> THEN [exc |-> "none", value |-> combined_data]
        ELSE file_read(SubSeq(paths, 1, Len(paths) - 1), files[paths[Len(paths)]])

\* get_temp_humidity_plot_data / get_laser_plot_data on the category's
\* folder: every exception of the outer block is caught and the empty
\* result returned.
get_plot_data(data_type, max_points, files) ==
    LET result(combined) ==
            IF combined.exc # "none"
            THEN plot_result(<<>>, plot_columns(data_type))
            ELSE plot_result(last_points(combined.value, max_points),
                             plot_columns(data_type))
    IN  result(combine_reversed(sorted(glob(data_type, files)), <<>>, max_points, files))

get_temp_humidity_plot_data(max_points, files) ==
    get_plot_data(<<"Temp", "Humidity", "data">>, max_points, files)

get_laser_plot_data(max_points, files) ==
    get_plot_data(<<"Lasers", "data">>, max_points, files)

\* ----------------------------------------------------------- the dashboard

\* The two dashboards: src/fe/dashh.py and src/fe/dash_app.py.
Apps == {"dashh", "dash_app"}

\* The navigation links, in the order of the className outputs of
\* navigate_pages.
LinkIds(app) ==
    IF app = "dashh"
    THEN <<"home-link", "temp-humidity-link", "laser-link", "photodiode-link",
           "data-retrieval-link">>
    ELSE <<"temp-humidity-link", "laser-link", "photodiode-link",
           "data-retrieval-link">>

\* create_sidebar(): the className each link is built with.
create_sidebar(app) ==
    IF app = "dashh"
    THEN <<"nav-link active", "nav-link", "nav-link", "nav-link", "nav-link">>
    ELSE <<"nav-link", "nav-link", "nav-link", "nav-link">>

\* app.layout: the store, the sidebar and the main content as built; no
\* callback has run yet.
app_layout(app) ==
    [app          |-> app,
     loaded       |-> FALSE,
     current_page |-> IF app = "dashh" THEN "home" ELSE "temp-humidity",
     main_content |-> IF app = "dashh" THEN "home_layout" ELSE "temp_humidity_layout",
     className    |-> create_sidebar(app),
     n_clicks     |-> [i \in DOMAIN LinkIds(app) |-> 0],
     n_intervals  |-> 0,
     shown        |-> <<>>]

\* navigate_pages that marks the clicked link and leaves the home link as it
\* was built.
navigate_pages_home_stays(button_id, current_page) ==
    CASE button_id = "temp-humidity-link" ->
           <<"temp_humidity_layout", "temp-humidity", "nav-link active", "nav-link active",
             "nav-link", "nav-link", "nav-link">>
      [] button_id = "laser-link" ->
           <<"lasers_layout", "lasers", "nav-link active", "nav-link", "nav-link active",
             "nav-link", "nav-link">>
      [] button_id = "photodiode-link" ->
           <<"photodiodes_layout", "photodiodes", "nav-link active", "nav-link", "nav-link",
             "nav-link active", "nav-link">>
      [] button_id = "data-retrieval-link" ->
           <<"data_retrieval_layout", "data-retrieval", "nav-link active", "nav-link",
             "nav-link", "nav-link", "nav-link active">>
      [] OTHER ->
           <<"home_layout", "home", "nav-link active", "nav-link", "nav-link",
             "nav-link", "nav-link">>

\* dashh.navigate_pages: button_id is the id of the link that triggered the
\* callback, "" when nothing did (the call at page load).  The outputs are
\* the children of main-content, the data of current-page and the className
\* of the five links.
navigate_pages_dashh(button_id, current_page) ==
    CASE button_id = "home-link" ->
           <<"home_layout", "home", "nav-link active", "nav-link", "nav-link",
             "nav-link", "nav-link">>
      [] button_id = "temp-humidity-link" ->
           <<"temp_humidity_layout", "temp-humidity", "nav-link", "nav-link active",
             "nav-link", "nav-link", "nav-link">>
      [] button_id = "laser-link" ->
           <<"lasers_layout", "lasers", "nav-link", "nav-link", "nav-link active",
             "nav-link", "nav-link">>
      [] button_id = "photodiode-link" ->
           <<"photodiodes_layout", "photodiodes", "nav-link", "nav-link", "nav-link",
             "nav-link active", "nav-link">>
      [] button_id = "data-retrieval-link" ->
           <<"data_retrieval_layout", "data-retrieval", "nav-link", "nav-link",
             "nav-link", "nav-link", "nav-link active">>
      [] OTHER ->
           <<"home_layout", "home", "nav-link active", "nav-link", "nav-link",
             "nav-link", "nav-link">>

\* dash_app.navigate_pages: four links, the default page is temp-humidity.
navigate_pages_dash_app(button_id, current_page) ==
    CASE button_id = "laser-link" ->
           <<"lasers_layout", "lasers", "nav-link", "nav-link active", "nav-link",
             "nav-link">>
      [] button_id = "photodiode-link" ->
           <<"photodiodes_layout", "photodiodes", "nav-link", "nav-link",
             "nav-link active", "nav-link">>
      [] button_id = "data-retrieval-link" ->
           <<"data_retrieval_layout", "data-retrieval", "nav-link", "nav-link",
             "nav-link", "nav-link active">>
      [] OTHER ->
           <<"temp_humidity_layout", "temp-humidity", "nav-link active", "nav-link",
             "nav-link", "nav-link">>

\* The navigation callback of the app served.
navigate_pages(app, button_id, current_page) ==
    IF app = "dashh" THEN navigate_pages_dashh(button_id, current_page)
    ELSE navigate_pages_dash_app(button_id, current_page)

\* The callbacks an interval triggers, each with the page it belongs to.
PeriodicCallbacks(app) ==
    {[name |-> "update_temp_humidity",     page |-> "temp-humidity"],
     [name |-> "update_lasers",            page |-> "lasers"],
     [name |-> "update_photodiode_values", page |-> "photodiodes"],
     [name |-> "update_photodiode_graph",  page |-> "photodiodes"]}
    \cup IF app = "dashh"
         THEN {[name |-> "update_home_dashboard", page |-> "home"]}
         ELSE {}

\* update_photodiode_values(n, current_page): PreventUpdate on another page;
\* otherwise "--" five times without a latest row, else P1..P5 of it ("--"
\* for an empty cell; the two-decimal format is left out).
update_photodiode_values(n, current_page, files) ==
    LET shown(latest_data) ==
            IF latest_data = None THEN [i \in 1..5 |-> "--"]
            ELSE [i \in 1..5 |-> IF latest_data.row[3 + i] = "" THEN "--"
                                 ELSE latest_data.row[3 + i]]
    IN  IF current_page # "photodiodes"
        THEN [raised |-> "PreventUpdate"]
        ELSE [raised |-> "none",
              outputs |-> shown(get_latest_photodiode(files).value)]

\* The other periodic callbacks: PreventUpdate on another page, otherwise
\* the values and figures of tick n.
periodic_update(callback, n, current_page, files) ==
    IF callback.name = "update_photodiode_values"
    THEN update_photodiode_values(n, current_page, files)
    ELSE IF current_page # callback.page
    THEN [raised |-> "PreventUpdate"]
    ELSE [raised |-> "none", outputs |-> <<callback.page, n>>]

\* ------------------------------------------------------------- the state

VARIABLES
    clock,        \* the wall clock, seconds since the Unix epoch
    files,        \* Database/: existing file |-> its lines
    folders,      \* Database/: the existing month folders
    poll,         \* main(): "init", "connecting", "polling", "exited", "interrupted", "stopped", "crashed"
    api_process,  \* the server subprocess: "none", "running", "terminated"
    reader,       \* what get_com4_reader returned: "none" before it is
                  \* called, "fetch_one", "dummy_fetch"
    runs,         \* handler runs that reached the storage layer
    faults,       \* I/O faults met so far
    history,      \* existing file |-> how each append that changed it ended
    ret,          \* what the last operation was given and returned
    requests,     \* the write_to_csv calls of requests handled at once:
                  \* for each its position and its local variables
    dash          \* the dashboard in the browser: the app served, the
                  \* 'current-page' store, the children of 'main-content',
                  \* the className of each navigation link, the clicks and
                  \* interval ticks so far, what each page's callbacks showed

vars == <<clock, files, folders, poll, api_process, reader, runs, faults,
          history, ret, requests, dash>>

Met(fault) == IF fault = "none" THEN 0 ELSE 1

\* The history after a handler has turned `files` into `after`: "ok" for
\* an append that added its lines, "fault" for one that only created the file.
Logged(after) ==
    [p \in DOMAIN after |->
        IF p \notin DOMAIN files
        THEN <<IF after[p] # <<>> THEN "ok" ELSE "fault">>
        ELSE IF after[p] # files[p] THEN Append(history[p], "ok")
        ELSE history[p]]

Ticks(t) == (t - StartEpoch) \div TickSeconds

\* The clock readings a handler can make from instant t on.
Later(t) == {t + k * TickSeconds : k \in 0..1} \cap
            {u \in Int : Ticks(u) <= MaxTicks}

AllFieldSet == {all_fields[i] : i \in 1..Len(all_fields)}

Valid(D) ==
    [f \in D |-> field_texts[CHOOSE i \in 1..Len(all_fields) : all_fields[i] = f]]

WithTimestamp(form, raw) ==
    [f \in DOMAIN form \cup {"timestamp"} |->
        IF f = "timestamp" THEN raw ELSE form[f]]

\* The fields the requests vary in: one of the first category, one inside
\* the second, and the last one.
ProbeFields == {"P3", "X2", "D2"}

\* The request.form values: empty, lacking up to MaxMissing of the probe
\* fields, lacking all required fields, one value that is no number, and
\* complete with every kind of 'timestamp'.
Forms ==
    {Valid({})}
    \cup {Valid(AllFieldSet \ M) :
            M \in {N \in SUBSET ProbeFields : Cardinality(N) \in 1..MaxMissing}}
    \cup {WithTimestamp(Valid({}), [kind |-> "text", range |-> "none", v |-> 0])}
    \cup {[Valid(AllFieldSet) EXCEPT ![f] = "abc"] : f \in ProbeFields}
    \cup {Valid(AllFieldSet)}
    \cup {WithTimestamp(Valid(AllFieldSet), raw) : raw \in RawEpochs}

\* The category directories the readers are asked about.
DataTypes == {<<"Temp", "Humidity", "data">>, <<"Photodiode", "data">>,
              <<"Lasers", "data">>}

\* The calendar days (IST) the clock can show.
Dates ==
    {LET dt == datetime(StartEpoch + k * TickSeconds, IST)
     IN  <<dt.year, dt.month, dt.day>> : k \in 0..MaxTicks}

Init ==
    /\ clock = StartEpoch
    /\ files = <<>>
    /\ folders = {}
    /\ poll = "init"
    /\ api_process = "none"
    /\ reader = "none"
    /\ requests = <<>>
    /\ dash = app_layout("dashh")
    /\ runs = 0
    /\ faults = 0
    /\ history = <<>>
    /\ ret = [op |-> "none"]

\* main() up to get_com4_reader: start_api_server() returns None and main
\* returns, or the subprocess runs and main goes on to connect.
StartMain ==
    /\ poll = "init"
    /\ \/ /\ poll' = "exited"
          /\ UNCHANGED api_process
       \/ /\ poll' = "connecting"
          /\ api_process' = "running"
    /\ ret' = [op |-> "main"]
    /\ UNCHANGED <<clock, files, folders, reader, runs, faults, history, requests, dash>>

\* reader = get_com4_reader(...) returns and the try block with the loop is
\* entered.
Connect ==
    /\ poll = "connecting"
    /\ \E outcomes \in ConnectOutcomes :
          /\ reader' = get_com4_reader(outcomes).reader
          /\ ret' = [op |-> "get_com4_reader", outcomes |-> outcomes,
                     attempts |-> get_com4_reader(outcomes).attempts]
    /\ poll' = "polling"
    /\ UNCHANGED <<clock, files, folders, api_process, runs, faults, history, requests, dash>>

\* One pass of the loop of main(), the sleep included; an exception that
\* leaves the loop runs the finally block and ends main.
PollStep(input, now1, now2, faultDir, faultFile) ==
    LET done(com4_data, out) ==
        /\ files' = out.files
        /\ history' = Logged(out.files)
        /\ folders' = out.folders
        /\ runs' = runs + 1
        /\ faults' = faults + Met(faultDir) + Met(faultFile)
        /\ ret' = [op |-> "poll_cycle", input |-> input, com4_data |-> com4_data,
                   now |-> clock, clocks |-> <<now1, now2>>, exc |-> out.exc, wrote |-> out.wrote,
                   filepath |-> IF out.wrote \in {"saved", "failed"}
                                THEN out.filepath ELSE None,
                   time |-> IF out.wrote \in {"saved", "failed"}
                            THEN out.time ELSE NoTime]
        /\ IF out.exc = "none"
           THEN /\ clock' = now2 + POLL_INTERVAL
                /\ UNCHANGED <<poll, api_process>>
           ELSE /\ clock' = now1
                /\ poll' = "crashed"
                /\ api_process' = "terminated"
        /\ UNCHANGED <<reader, requests, dash>>
        polled(com4_data) ==
            done(com4_data, poll_cycle(com4_data, clock, now1, now2,
                                       faultDir, faultFile, files, folders))
    IN  polled(fetch_one(reader, input, clock))

PollCycle ==
    /\ poll = "polling"
    /\ runs < MaxWrites
    /\ \E input \in DeviceInputs :
          IF fetch_one(reader, input, clock) = NoData
          THEN PollStep(input, clock, clock, "none", "none")
          ELSE \E now1 \in Later(clock) :
                \/ \E now2 \in Later(now1), faultFile \in {"none", "open", "write"} :
                      /\ faults + Met(faultFile) <= MaxFaults
                      /\ PollStep(input, now1, now2, "none", faultFile)
                \/ /\ faults < MaxFaults
                   /\ PollStep(input, now1, now1, "makedirs", "none")

\* KeyboardInterrupt.  In the loop the except clause logs it and the finally
\* block terminates the server.  In get_com4_reader, which main calls before
\* its try block and which catches serial.SerialException only, it ends main
\* with no handler run.
KeyboardInterrupt ==
    /\ \/ /\ poll = "polling"
          /\ poll' = "stopped"
          /\ api_process' = "terminated"
       \/ /\ poll = "connecting"
          /\ poll' = "interrupted"
          /\ UNCHANGED api_process
    /\ ret' = [op |-> "KeyboardInterrupt"]
    /\ UNCHANGED <<clock, files, folders, reader, requests, runs, faults, history, dash>>

\* The requests that pass validation and time resolution and reach the
\* two writes.
ReachesStorage(form) ==
    /\ DOMAIN form # {}
    /\ missing_fields(form) = <<>>
    /\ bad_fields(form) = <<>>
    /\ fromtimestamp_exc(form) \in {"none"} \cup get_time_data_caught

\* One POST to `route`.
PushStep(route, form, nowP, nowL, faultP, faultL) ==
    LET done(out) ==
        /\ files' = out.files
        /\ history' = Logged(out.files)
        /\ folders' = out.folders
        /\ runs' = IF out.writes # <<>> THEN runs + 1 ELSE runs
        /\ faults' = faults + Met(faultP) + Met(faultL)
        /\ clock' = nowL
        /\ ret' = [op |-> "save_sensor_data", route |-> route,
                   form |-> form, now |-> clock,
                   clocks |-> <<nowP, nowL>>, met |-> <<faultP, faultL>>,
                   status |-> out.status, body |-> out.body,
                   exc |-> out.exc, time |-> out.time,
                   writes |-> out.writes]
    IN  done(view_function(route, form, clock, nowP, nowL,
                           faultP, faultL, files, folders))

SaveSensorData ==
    /\ api_process = "running"
    /\ \E route \in Routes, form \in Forms :
          IF ReachesStorage(form)
          THEN /\ runs < MaxWrites
               /\ \E nowP \in Later(clock), faultP \in Faults, faultL \in Faults :
                     /\ faults + Met(faultP) + Met(faultL) <= MaxFaults
                     /\ \E nowL \in Later(nowP) :
                           PushStep(route, form, nowP, nowL, faultP, faultL)
          ELSE PushStep(route, form, clock, clock, "none", "none")
    /\ UNCHANGED <<poll, api_process, reader, requests, dash>>

\* read_data_by_range called by the dashboard.
ReadDataByRange ==
    /\ \E data_type \in DataTypes, start_date \in Dates, end_date \in Dates :
          LET out == read_data_by_range(data_type, start_date, end_date, files)
          IN  ret' = [op |-> "read_data_by_range", data_type |-> data_type,
                      start_date |-> start_date, end_date |-> end_date,
                      exc |-> out.exc, paths |-> out.paths, value |-> out.value]
    /\ UNCHANGED <<clock, files, folders, poll, api_process, reader, requests, runs, faults, history, dash>>

\* get_most_recent called by the dashboard.
GetMostRecent ==
    /\ \E data_type \in DataTypes :
          LET out == get_most_recent(data_type, files)
          IN  ret' = [op |-> "get_most_recent", data_type |-> data_type,
                      exc |-> out.exc, paths |-> out.paths, value |-> out.value]
    /\ UNCHANGED <<clock, files, folders, poll, api_process, reader, requests, runs, faults, history, dash>>

\* Time passes while nothing runs.
Tick ==
    /\ Ticks(clock) < MaxTicks
    /\ clock' = clock + TickSeconds
    /\ ret' = [op |-> "none"]
    /\ UNCHANGED <<files, folders, poll, api_process, reader, requests, runs, faults, history, dash>>

\* ----------------------------------------------- the store the readers see

\* The handler runs that build a store: on each instant the clock can show,
\* poll cycles and push requests that meet no fault.
Slots ==
    [i \in 1..(2 * (MaxTicks + 1)) |->
        [now |-> StartEpoch + ((i - 1) \div 2) * TickSeconds,
         op  |-> IF i % 2 = 1 THEN "poll" ELSE "push"]]

\* The store after k runs of the handler of `slot`, POLL_INTERVAL apart.
RECURSIVE RunTimes(_, _, _)
RunTimes(slot, k, st) ==
    IF k = 0 THEN st
    ELSE LET store(out) == [files |-> out.files, folders |-> out.folders]
             run(prev, t) ==
                 store(IF slot.op = "poll"
                       THEN poll_cycle(reading(t), t, t, t, "none", "none",
                                       prev.files, prev.folders)
                       ELSE save_sensor_data(Valid(AllFieldSet), t, t, t,
                                             "none", "none", prev.files, prev.folders))
         IN  run(RunTimes(slot, k - 1, st), slot.now + (k - 1) * POLL_INTERVAL)

\* The stores after the runs of the first i slots, 0, 1 or MaxWrites runs
\* in each.
RECURSIVE Built(_)
Built(i) ==
    IF i = 0 THEN {[files |-> <<>>, folders |-> {}]}
    ELSE {RunTimes(Slots[i], k, st) : k \in {0, 1, MaxWrites}, st \in Built(i - 1)}

\* The readers start on a store the handlers have built.
InitRead ==
    /\ \E st \in Built(Len(Slots)) :
          /\ files = st.files
          /\ folders = st.folders
          /\ history = [p \in DOMAIN st.files |->
                           [i \in 1..(Len(st.files[p]) - 1) |-> "ok"]]
    /\ clock = StartEpoch + MaxTicks * TickSeconds + MaxWrites * POLL_INTERVAL
    /\ poll = "polling"
    /\ api_process = "running"
    /\ reader = "fetch_one"
    /\ requests = <<>>
    /\ dash = app_layout("dashh")
    /\ runs = MaxWrites
    /\ faults = 0
    /\ ret = [op |-> "none"]

\* The read path over a store the write path has built.
NextRead ==
    \/ ReadDataByRange
    \/ GetMostRecent

SpecRead == InitRead /\ [][NextRead]_vars

\* ------------------------------------- the readers on a tree as found

\* A row without a time: every cell empty.
blank_row(header) == [j \in 1..Len(header) |-> IF j <= 3 THEN <<>> ELSE ""]

\* A row whose time cells hold the zone names alone.
placeholder_row(header) ==
    [j \in 1..Len(header) |->
        CASE j = 1 -> <<"IST">> [] j = 2 -> <<"UTC">> [] j = 3 -> <<>> [] OTHER -> ""]

\* '<data_type>_backup.csv' next to the partition p: the glob of the
\* category matches it, its name ends in no date.
backup_of(p) ==
    [dir |-> p.dir, month_year |-> p.month_year,
     name |-> p.dir \o << <<98, 97, 99, 107, 117, 112>> >>]

with_file(st, p, lines) ==
    [files |-> [q \in DOMAIN st.files \cup {p} |->
                   IF q = p THEN lines ELSE st.files[q]],
     folders |-> st.folders]

\* The trees the readers can find: one the handlers built, as it is or with
\* one thing in it that the handlers did not write: a trailing row with a
\* blank or a placeholder timestamp, a copy of a partition under a name
\* without a date, or a partition whose tail is no text.
Found(st) ==
    {st}
    \cup {with_file(st, p, Append(st.files[p], blank_row(st.files[p][1]))) :
             p \in DOMAIN st.files}
    \cup {with_file(st, p, Append(st.files[p], placeholder_row(st.files[p][1]))) :
             p \in DOMAIN st.files}
    \cup {with_file(st, backup_of(p), st.files[p]) : p \in DOMAIN st.files}
    \cup {with_file(st, p, Append(st.files[p], Undecodable)) : p \in DOMAIN st.files}

InitFound ==
    /\ \E st \in Built(Len(Slots)) : \E found \in Found(st) :
          /\ files = found.files
          /\ folders = found.folders
          /\ history = [p \in DOMAIN found.files |->
                           [i \in 1..(Len(found.files[p]) - 1) |-> "ok"]]
    /\ clock = StartEpoch + MaxTicks * TickSeconds + MaxWrites * POLL_INTERVAL
    /\ poll = "polling"
    /\ api_process = "running"
    /\ reader = "fetch_one"
    /\ requests = <<>>
    /\ dash = app_layout("dashh")
    /\ runs = MaxWrites
    /\ faults = 0
    /\ ret = [op |-> "none"]

\* get_latest_photodiode, get_latest_temp_humidity or get_latest_laser
\* called by the dashboard.
GetLatest ==
    /\ \E data_type \in DataTypes :
          LET out == get_latest(data_type, files)
          IN  ret' = [op |-> "get_latest", data_type |-> data_type,
                      exc |-> out.exc, latest_file |-> out.latest_file,
                      value |-> out.value]
    /\ UNCHANGED <<clock, files, folders, poll, api_process, reader, requests, runs, faults, history, dash>>

NextFound ==
    \/ ReadDataByRange
    \/ GetMostRecent
    \/ GetLatest

SpecFound == InitFound /\ [][NextFound]_vars

\* --------------------------------------- two requests handled at once

\* The requests the threaded server handles at the same time.
Concurrent == 2

\* Two requests have reached write_to_csv for the same category at the same
\* clock reading; the day's partition is absent, or an earlier request has
\* written it.
InitRace ==
    /\ clock = StartEpoch
    /\ dash = app_layout("dashh")
    /\ \E st \in {[files |-> <<>>, folders |-> {}],
                  RunTimes([now |-> StartEpoch, op |-> "push"], 1,
                           [files |-> <<>>, folders |-> {}])} :
          /\ files = st.files
          /\ folders = st.folders
          /\ history = [p \in DOMAIN st.files |-> <<"ok">>]
    /\ poll = "polling"
    /\ api_process = "running"
    /\ reader = "fetch_one"
    /\ runs = 0
    /\ faults = 0
    /\ ret = [op |-> "write_to_csv", existed |-> DOMAIN files # {}]
    /\ \E data_type \in {"Photodiode", "Lasers"} :
          requests =
             [i \in 1..Concurrent |->
                 [pc          |-> "makedirs",   \* then "exists", "open", "header",
                                                \* "row", "close", "done"
                  data_type   |-> data_type,
                  headers     |-> time_headers \o
                                  (IF data_type = "Photodiode"
                                   THEN required_photodiode ELSE required_lasers),
                  data_row    |-> sensor_row(time_data(datetime(StartEpoch + i, IST)),
                                             Valid(AllFieldSet),
                                             IF data_type = "Photodiode"
                                             THEN required_photodiode
                                             ELSE required_lasers),
                  filepath    |-> csv_path(<<data_type>>,
                                     strftime_month_year(datetime(clock, IST)),
                                     strftime_date(datetime(clock, IST))),
                  file_exists |-> FALSE,
                  buffer      |-> <<>>]]

\* Request i moves from statement `at` to statement `to`.
Moves(i, at, to) ==
    /\ i \in DOMAIN requests
    /\ requests[i].pc = at
    /\ requests' = [requests EXCEPT ![i].pc = to]

\* os.makedirs(dir_path, exist_ok=True)
Makedirs(i) ==
    /\ Moves(i, "makedirs", "exists")
    /\ folders' = folders \cup {[dir |-> requests[i].filepath.dir,
                                 month_year |-> requests[i].filepath.month_year]}
    /\ UNCHANGED <<clock, files, poll, api_process, reader, runs, faults, history, ret, dash>>

\* file_exists = os.path.exists(filepath)
Exists(i) ==
    /\ i \in DOMAIN requests
    /\ requests[i].pc = "exists"
    /\ requests' = [requests EXCEPT ![i].pc = "open",
                                    ![i].file_exists = requests[i].filepath \in DOMAIN files]
    /\ UNCHANGED <<clock, files, folders, poll, api_process, reader, runs, faults,
                   history, ret, dash>>

\* open(filepath, 'a'): the file is created when it is absent.
Open(i) ==
    /\ Moves(i, "open", "header")
    /\ files' = opened(files, requests[i].filepath)
    /\ UNCHANGED <<clock, folders, poll, api_process, reader, runs, faults, history, ret, dash>>

\* if not file_exists: writer.writerow(headers), into the buffer of f.
WriteHeader(i) ==
    /\ i \in DOMAIN requests
    /\ requests[i].pc = "header"
    /\ requests' = [requests EXCEPT
                      ![i].pc = "row",
                      ![i].buffer = IF requests[i].file_exists THEN <<>>
                                    ELSE <<requests[i].headers>>]
    /\ UNCHANGED <<clock, files, folders, poll, api_process, reader, runs, faults,
                   history, ret, dash>>

\* writer.writerow(data_row), into the buffer of f.
WriteRow(i) ==
    /\ i \in DOMAIN requests
    /\ requests[i].pc = "row"
    /\ requests' = [requests EXCEPT
                      ![i].pc = "close",
                      ![i].buffer = Append(requests[i].buffer, requests[i].data_row)]
    /\ UNCHANGED <<clock, files, folders, poll, api_process, reader, runs, faults,
                   history, ret, dash>>

\* The end of the with block: the buffer is written at the end of the file.
Close(i) ==
    /\ Moves(i, "close", "done")
    /\ files' = appended(files, requests[i].filepath, requests[i].buffer)
    /\ UNCHANGED <<clock, folders, poll, api_process, reader, runs, faults, history, ret, dash>>

NextRace ==
    \E i \in 1..Concurrent :
        \/ Makedirs(i)
        \/ Exists(i)
        \/ Open(i)
        \/ WriteHeader(i)
        \/ WriteRow(i)
        \/ Close(i)

SpecRace == InitRace /\ [][NextRace]_vars

\* ------------------------------------------- the MJD conversion alone

\* Calendar dates at the day, month, leap-day, year and century boundaries.
CalendarDates ==
    { <<1899, 12, 31>>, <<1900, 2, 28>>, <<1900, 3, 1>>, <<1970, 1, 1>>,
      <<1999, 12, 31>>, <<2000, 1, 1>>, <<2000, 2, 29>>, <<2000, 3, 1>>,
      <<2024, 2, 28>>, <<2024, 2, 29>>, <<2024, 3, 1>>,
      <<2025, 1, 31>>, <<2025, 2, 1>>, <<2025, 2, 28>>, <<2025, 3, 1>>,
      <<2025, 12, 31>>, <<2026, 1, 1>>, <<2100, 2, 28>>, <<2100, 3, 1>> }

TimesOfDay == { <<0, 0, 0>>, <<12, 30, 15>>, <<23, 59, 59>> }

\* The UTC datetime objects of these dates and times of day.
Instants ==
    { [year |-> d[1], month |-> d[2], day |-> d[3],
       hour |-> t[1], minute |-> t[2], second |-> t[3]] :
      d \in CalendarDates, t \in TimesOfDay }

\* Two UTC datetime objects, not yet converted.
InitMjd ==
    /\ clock = StartEpoch
    /\ files = <<>>
    /\ folders = {}
    /\ poll = "init"
    /\ api_process = "none"
    /\ reader = "none"
    /\ requests = <<>>
    /\ dash = app_layout("dashh")
    /\ runs = 0
    /\ faults = 0
    /\ history = <<>>
    /\ \E a \in Instants, b \in Instants : ret = [op |-> "utc", a |-> a, b |-> b]

\* datetime_to_mjd applied to both.
DatetimeToMjd ==
    /\ ret.op = "utc"
    /\ ret' = [op |-> "datetime_to_mjd", a |-> ret.a, b |-> ret.b,
               mjd_a |-> datetime_to_mjd(ret.a),
               mjd_b |-> datetime_to_mjd(ret.b)]
    /\ UNCHANGED <<clock, files, folders, poll, api_process, reader, requests, runs,
                   faults, history, dash>>

SpecMjd == InitMjd /\ [][DatetimeToMjd]_vars

\* The write path: the poll process and the push server it starts.
Next ==
    \/ StartMain
    \/ Connect
    \/ PollCycle
    \/ KeyboardInterrupt
    \/ SaveSensorData
    \/ Tick

Spec == Init /\ [][Next]_vars

\* ================================================================ claims

\* The header of the category a file belongs to.
HeaderOf(p) ==
    CASE p.dir = <<"Temp", "Humidity", "data">> -> pipeline_headers
      [] p.dir = <<"Photodiode", "data">>       -> time_headers \o required_photodiode
      [] OTHER                                   -> time_headers \o required_lasers

HeaderCount(lines, p) == Cardinality({i \in DOMAIN lines : lines[i] = HeaderOf(p)})

IsDataLine(line, p) == line # HeaderOf(p) /\ Len(line) = Len(HeaderOf(p))

AllOk(h) == \A i \in DOMAIN h : h[i] = "ok"

\* The required fields a message names.
Named(body) == {f \in AllFieldSet : \E i \in DOMAIN body : body[i] = f}

Absent(form) == AllFieldSet \ DOMAIN form

IsPush == ret.op = "save_sensor_data"

\* The date in the name of a file and the month folder that date belongs to.
NameDate(p) == extract_date_from_filename(p).date

FolderOfDate(d) == MonthChars[d[2]] \o <<95>> \o Digits(d[1], 4)

\* C1: on both write paths, a file that the first successful append created
\* and that N successful appends have written holds one header line and
\* then N data lines; an append to a file that exists writes no header
\* (a file has a header only if a successful append created it).
C1_OneHeaderThenRows ==
    \A p \in DOMAIN files :
       /\ AllOk(history[p]) =>
             /\ Len(files[p]) = 1 + Len(history[p])
             /\ files[p][1] = HeaderOf(p)
             /\ \A i \in 2..Len(files[p]) : IsDataLine(files[p][i], p)
       /\ HeaderCount(files[p], p) = IF history[p][1] = "ok" THEN 1 ELSE 0

\* C1 witness: a Photodiode partition after two successful appends.
C1_Witness ==
    \E p \in DOMAIN files :
       p.dir = <<"Photodiode", "data">> /\ history[p] = <<"ok", "ok">>

\* C2: a filesystem error met while deriving the path, creating the
\* directories, opening the file or writing the row is turned into a failure
\* result: no poll cycle and no request that reached the writes ends with an
\* exception, and the poll loop goes on.
C2_Original ==
    /\ ret.op = "poll_cycle" => ret.exc = "none" /\ poll = "polling"
    /\ (IsPush /\ ret.writes # <<>>) => ret.exc = "none"

\* C3 as stated: every request lacking a required field, the empty one
\* included, is answered 400 with a message naming exactly the absent
\* fields, and reaches no write.
C3_Original ==
    (IsPush /\ Absent(ret.form) # {}) =>
        /\ ret.status = 400
        /\ Named(ret.body) = Absent(ret.form)
        /\ ret.writes = <<>>

C3_Step ==
    (ret'.op = "save_sensor_data" /\ Absent(ret'.form) # {}) =>
        /\ ret'.status = 400
        /\ IF DOMAIN ret'.form = {}
           THEN ret'.body = <<"Request body cannot be empty.">>
           ELSE /\ ret'.body[1] = "Missing data fields: "
                /\ Named(ret'.body) = Absent(ret'.form)
        /\ ret'.writes = <<>>
        /\ files' = files
        /\ folders' = folders

\* C3 amended: a request with at least one field that lacks a required field
\* is answered 400 with "Missing data fields: " and exactly the absent
\* required fields; a request with no field at all is answered 400 with
\* "Request body cannot be empty."; in both cases no file and no folder is
\* created or changed.
C3_MissingFieldsNamed == [][C3_Step]_vars

\* C3 witness: a request lacking P3 alone was answered while partitions exist.
C3_Witness ==
    /\ IsPush
    /\ Absent(ret.form) = {"P3"}
    /\ ret.status = 400
    /\ DOMAIN files # {}

\* C4: a complete request with a value that is no number is answered 400
\* with a message naming an offending field, and reaches no write.
C4_Original ==
    (IsPush /\ Absent(ret.form) = {} /\ bad_fields(ret.form) # <<>>) =>
        /\ ret.status = 400
        /\ \E i \in DOMAIN bad_fields(ret.form) :
              bad_fields(ret.form)[i] \in Named(ret.body)
        /\ ret.writes = <<>>

\* Whether a response tells which category failed.
NamesCategory(body, data_type) == \E i \in DOMAIN body : body[i] = data_type

\* C5: when exactly one of the two writes of a request fails, the response
\* names the failed category and differs from the response to both failing.
C5_Original ==
    (IsPush /\ Len(ret.writes) = 2 /\ ret.writes[1].ok # ret.writes[2].ok) =>
        /\ \A i \in 1..2 :
              ~ret.writes[i].ok => NamesCategory(ret.body, ret.writes[i].data_type)
        /\ <<ret.status, ret.body>> #
              <<send_response(FALSE, FALSE, ret.time).status,
                send_response(FALSE, FALSE, ret.time).body>>

\* C6: for a raw timestamp that is absent, malformed or out of range the
\* resolver raises nothing and returns the triple of the server time.
C6_Original ==
    /\ (IsPush /\ Absent(ret.form) = {} /\ bad_fields(ret.form) = <<>>
          /\ fromtimestamp_exc(ret.form) # "none") =>
          /\ ret.exc = "none"
          /\ ret.time = time_data(datetime(ret.now, IST))
    /\ (ret.op = "poll_cycle" /\ ret.wrote \in {"saved", "failed"}
          /\ strptime_exc(ret.com4_data.TIMESTAMPS) # "none") =>
          ret.time = time_data(datetime(ret.now, IST))

\* The dates in the names of a sequence of paths never decrease.
Chronological(paths) ==
    \A i \in 1..Len(paths), j \in 1..Len(paths) :
       i < j => date_le(NameDate(paths[i]), NameDate(paths[j]))

\* C7: read_data_by_range returns the rows of all and only the files of the
\* category whose name date lies in the range, the files in chronological
\* order, rows in file order; nothing matching gives [] and no exception.
C7_Original ==
    ret.op = "read_data_by_range" =>
        /\ ret.exc = "none"
        /\ {ret.paths[i] : i \in DOMAIN ret.paths} =
              {p \in glob(ret.data_type, files) :
                  /\ date_le(ret.start_date, NameDate(p))
                  /\ date_le(NameDate(p), ret.end_date)}
        /\ Chronological(ret.paths)
        /\ ret.value = extend_all(ret.paths, files)

\* C8: get_most_recent takes its row from the partition of the category
\* with the latest date in its name, and returns None without partitions.
C8_Original ==
    ret.op = "get_most_recent" =>
        IF glob(ret.data_type, files) = {}
        THEN ret.value = None
        ELSE \A p \in glob(ret.data_type, files) :
                date_le(NameDate(p), NameDate(ret.paths[1]))

\* C9: a category has one file per calendar day, and every file lies in the
\* month folder of the date in its own name.
C9_Original ==
    /\ \A p \in DOMAIN files : p.month_year = FolderOfDate(NameDate(p))
    /\ \A p, q \in DOMAIN files :
          (p.dir = q.dir /\ NameDate(p) = NameDate(q)) => p = q

LastLine(p) == files[p][Len(files[p])]

\* C10: a request that reaches the writes attempts both, the Lasers write
\* also after a failed Photodiode write, and every row it appends starts
\* with the one time triple resolved for the request.
C10_OneTimeTriple ==
    (IsPush /\ ret.writes # <<>>) =>
        /\ Len(ret.writes) = 2
        /\ ret.writes[1].data_type = "Photodiode"
        /\ ret.writes[2].data_type = "Lasers"
        /\ \A i \in 1..2 :
              ret.writes[i].ok =>
                 SubSeq(LastLine(ret.writes[i].filepath), 1, 3) =
                    <<ret.time.ist_str, ret.time.utc_str, ret.time.mjd>>

\* C10 witness: both rows were written, by writes that read the clock on
\* two different days.
C10_Witness ==
    /\ IsPush
    /\ Len(ret.writes) = 2
    /\ ret.writes[1].ok /\ ret.writes[2].ok
    /\ NameDate(ret.writes[1].filepath) # NameDate(ret.writes[2].filepath)

\* Whether a request passes validation: it has fields, all the required
\* ones, and every value is numeric.
PassesValidation(form) ==
    DOMAIN form # {} /\ Absent(form) = {} /\ bad_fields(form) = <<>>

\* C11: 200 exactly when validation passes and both writes succeed, with the
\* resolved local time in the message; 400 exactly when validation fails;
\* 500 exactly when validation passes and one of the two writes fails.
C11_Original ==
    IsPush =>
        /\ ret.status = 200 <=>
              /\ PassesValidation(ret.form)
              /\ Len(ret.writes) = 2
              /\ ret.writes[1].ok /\ ret.writes[2].ok
        /\ ret.status = 200 =>
              /\ Len(ret.body) = 2
              /\ ret.body[2] = ret.time.ist_str
        /\ ret.status = 400 <=> ~PassesValidation(ret.form)
        /\ ret.status = 500 <=>
              /\ PassesValidation(ret.form)
              /\ \E i \in DOMAIN ret.writes : ~ret.writes[i].ok

\* A poll cycle in which the reader returned None.
C12_Step ==
    (ret'.op = "poll_cycle" /\ ret'.com4_data = NoData) =>
        /\ files' = files
        /\ folders' = folders
        /\ ret'.exc = "none"
        /\ poll' = "polling"
        /\ api_process' = api_process
        /\ clock' = clock + POLL_INTERVAL

\* C12: a poll cycle in which the reader returns no data (no connection, a
\* serial error, a timeout, a malformed frame, a value that is no number)
\* writes no row, creates no file or folder, and leaves the loop running,
\* the next cycle coming after the poll interval.
C12_NoDataCycleGoesOn == [][C12_Step]_vars

\* C12 witness: the loop still polls after a cycle whose frame held a value
\* that is no number, partitions existing.
C12_Witness ==
    /\ ret.op = "poll_cycle"
    /\ ret.com4_data = NoData
    /\ ret.input.io = "none"
    /\ Len(ret.input.line) >= 8
    /\ reader = "fetch_one"
    /\ poll = "polling"
    /\ DOMAIN files # {}

\* The seconds from 1970-01-01 00:00:00 to the civil time a formatted time
\* string shows.
CivilSeconds(str) ==
    days_from_civil(str[1], str[2], str[3]) * 86400
    + str[4] * 3600 + str[5] * 60 + str[6]

\* A poll cycle that resolved a well-formed device timestamp.
PollResolved ==
    /\ ret.op = "poll_cycle"
    /\ ret.wrote \in {"saved", "failed"}
    /\ strptime_exc(ret.com4_data.TIMESTAMPS) = "none"

\* A push request that resolved a valid integer epoch.
PushResolved ==
    /\ IsPush
    /\ PassesValidation(ret.form)
    /\ fromtimestamp_exc(ret.form) = "none"

\* The string of the poll path is kept as local civil time.
C13_PollKept ==
    PollResolved =>
        /\ ret.time.ist_str = ret.com4_data.TIMESTAMPS.fields \o <<"IST">>
        /\ CivilSeconds(ret.time.utc_str) = CivilSeconds(ret.time.ist_str) - IST

\* C13 as stated: a device string is kept as local time, utc_str being
\* 5h30m less; a valid epoch is an absolute instant, utc_str being its UTC
\* calendar time and ist_str 5h30m more.
C13_Original ==
    /\ C13_PollKept
    /\ PushResolved =>
          /\ CivilSeconds(ret.time.utc_str) = ret.form["timestamp"].v
          /\ CivilSeconds(ret.time.ist_str) = CivilSeconds(ret.time.utc_str) + IST

\* What holds of C13: the same, with ist_str 5h30m ahead of utc_str only
\* for the epochs from 1945-10-14 17:30:00 UTC on; before it the zone had
\* other offsets and the string still ends in "IST".
C13_SinceFixedOffset ==
    /\ C13_PollKept
    /\ PushResolved =>
          /\ CivilSeconds(ret.time.utc_str) = ret.form["timestamp"].v
          /\ ret.form["timestamp"].v >= -764145000 =>
                CivilSeconds(ret.time.ist_str) = CivilSeconds(ret.time.utc_str) + IST

\* The day count of a calendar date from 1970-01-01 and the seconds of the
\* day of a datetime object.
DayCount(dt) == days_from_civil(dt.year, dt.month, dt.day)

SecondOfDay(dt) == dt.hour * 3600 + dt.minute * 60 + dt.second

\* The dates for which the formula is the Gregorian day count: from
\* 1900-03-01 to 2100-02-28, between the two century years that are no
\* leap years.
InSupportedRange(dt) ==
    /\ DayCount(dt) >= days_from_civil(1900, 3, 1)
    /\ DayCount(dt) <= days_from_civil(2100, 2, 28)

\* The reference: JD - 2400000.5 is 40587 on 1970-01-01, the fraction of
\* the day is the seconds of the day out of 86400.
ReferenceMjd(dt) == <<DayCount(dt) + 40587, SecondOfDay(dt)>>

Converted == ret.op = "datetime_to_mjd"

\* C14: for every UTC calendar instant from 1900-03-01 to 2100-02-28,
\* datetime_to_mjd returns the reference Modified Julian Date: the whole
\* days are the reference day count (51544 for 2000-01-01) and the
\* fraction is (h*3600 + m*60 + s) / 86400.
C14_MjdIsReference ==
    Converted =>
        /\ InSupportedRange(ret.a) => ret.mjd_a = ReferenceMjd(ret.a)
        /\ InSupportedRange(ret.b) => ret.mjd_b = ReferenceMjd(ret.b)

\* C14 witness: 2000-01-01 00:00:00 UTC was converted to MJD 51544.0.
C14_Witness ==
    /\ Converted
    /\ ret.a = [year |-> 2000, month |-> 1, day |-> 1,
                hour |-> 0, minute |-> 0, second |-> 0]
    /\ ret.mjd_a = <<51544, 0>>

\* The order of two instants, of two datetime objects and of two MJDs.
NotLater(a, b) ==
    \/ DayCount(a) < DayCount(b)
    \/ DayCount(a) = DayCount(b) /\ SecondOfDay(a) <= SecondOfDay(b)

MjdLeq(x, y) == x[1] < y[1] \/ (x[1] = y[1] /\ x[2] <= y[2])

\* C15: if the UTC instant of a is not later than that of b then
\* mjd(a) <= mjd(b), across day, month, leap-day and year boundaries.
C15_MjdMonotone ==
    Converted /\ NotLater(ret.a, ret.b) => MjdLeq(ret.mjd_a, ret.mjd_b)

\* C15 witness: the last second of January and the first of February were
\* converted, and the MJD went up by one second of a day.
C15_Witness ==
    /\ Converted
    /\ ret.a = [year |-> 2025, month |-> 1, day |-> 31,
                hour |-> 23, minute |-> 59, second |-> 59]
    /\ ret.b = [year |-> 2025, month |-> 2, day |-> 1,
                hour |-> 0, minute |-> 0, second |-> 0]
    /\ ret.mjd_b = <<ret.mjd_a[1] + 1, 0>>

\* The path p lies in the month folder of the clock reading t1 and carries
\* the date of the clock reading t2, both in the lab timezone.
PartitionOf(p, t1, t2) ==
    /\ p.month_year = strftime_month_year(datetime(t1, IST))
    /\ p.name[Len(p.name)] = strftime_date(datetime(t2, IST))

\* The date a formatted time string shows, as a file name carries it.
DateOfString(str) ==
    Digits(str[1], 4) \o <<45>> \o Digits(str[2], 2) \o <<45>> \o Digits(str[3], 2)

\* C16: the file a row is appended to is named by the wall clock read in
\* the lab timezone at the write (each push write reads it once, the poll
\* write once for the month folder and once for the date), never by the
\* row's resolved timestamp.
C16_PartitionByWallClock ==
    /\ IsPush =>
          \A i \in DOMAIN ret.writes :
             PartitionOf(ret.writes[i].filepath, ret.clocks[i], ret.clocks[i])
    /\ (ret.op = "poll_cycle" /\ ret.wrote \in {"saved", "failed"}) =>
          PartitionOf(ret.filepath, ret.clocks[1], ret.clocks[2])

\* C16 witness: a reading stamped three days ago was appended, with that
\* stamp, to the Photodiode file of the current day.
C16_Witness ==
    /\ PushResolved
    /\ ret.form["timestamp"].v = OldEpoch
    /\ ret.status = 200
    /\ ret.writes[1].filepath \in DOMAIN files
    /\ LastLine(ret.writes[1].filepath)[1] = ret.time.ist_str
    /\ PartitionOf(ret.writes[1].filepath, ret.clocks[1], ret.clocks[1])
    /\ DateOfString(ret.time.ist_str) # strftime_date(datetime(ret.clocks[1], IST))

\* The files a step created or changed.
Touched == {p \in DOMAIN files' : p \notin DOMAIN files \/ files'[p] # files[p]}

C19_Step ==
    /\ ret'.op = "poll_cycle" =>
          \A p \in Touched : p.dir = <<"Temp", "Humidity", "data">>
    /\ ret'.op = "save_sensor_data" =>
          /\ \A p \in Touched :
                p.dir \in {<<"Photodiode", "data">>, <<"Lasers", "data">>}
          /\ Len(ret'.writes) = 2 =>
                /\ ret'.writes[1].filepath.dir = <<"Photodiode", "data">>
                /\ ret'.writes[2].filepath.dir = <<"Lasers", "data">>
                /\ ret'.writes[1].filepath # ret'.writes[2].filepath

\* C19: a poll cycle creates or changes only files under Temp_Humidity_data,
\* a push request only files under Photodiode_data and Lasers_data, and the
\* two writes of one request target different files.
C19_DisjointFiles == [][C19_Step]_vars

\* C19 witness: on one day the poll loop has appended to its file and a
\* request, the last operation, to its two files.
C19_Witness ==
    /\ IsPush
    /\ ret.status = 200
    /\ \E p \in DOMAIN files :
          /\ p.dir = <<"Temp", "Humidity", "data">>
          /\ files[p] # <<>>
          /\ p.month_year = ret.writes[1].filepath.month_year
          /\ p.name[Len(p.name)] = ret.writes[1].filepath.name[Len(ret.writes[1].filepath.name)]
    /\ \A i \in 1..2 : ret.writes[i].filepath \in DOMAIN files

\* The line has the columns of the header hdr: the three times of td and
\* then, column by column, the value `values` holds for the column's name.
RowOfColumns(line, hdr, td, values) ==
    /\ Len(line) = Len(hdr)
    /\ SubSeq(hdr, 1, 3) = time_headers
    /\ SubSeq(line, 1, 3) = <<td.ist_str, td.utc_str, td.mjd>>
    /\ \A j \in 4..Len(hdr) : line[j] = values[hdr[j]]

\* C20: every line of a partition has as many fields as the header of its
\* category, and the row a write appends carries timestamp, UTC_timestamp,
\* MJD and then the category's fields in the order of the header, field i
\* being the value of column i.
C20_RowMatchesHeader ==
    /\ \A p \in DOMAIN files : \A i \in DOMAIN files[p] :
          Len(files[p][i]) = Len(HeaderOf(p))
    /\ IsPush =>
          \A i \in DOMAIN ret.writes :
             ret.writes[i].ok =>
                RowOfColumns(LastLine(ret.writes[i].filepath),
                             HeaderOf(ret.writes[i].filepath), ret.time, ret.form)
    /\ (ret.op = "poll_cycle" /\ ret.wrote = "saved") =>
          RowOfColumns(LastLine(ret.filepath), HeaderOf(ret.filepath),
                       ret.time, ret.com4_data)

\* C20 witness: a request appended its Lasers row under the header the file
\* was created with, X1 in the fourth column and D2 in the last.
C20_Witness ==
    /\ IsPush
    /\ ret.status = 200
    /\ files[ret.writes[2].filepath][1] = time_headers \o required_lasers
    /\ Len(files[ret.writes[2].filepath]) >= 2
    /\ LastLine(ret.writes[2].filepath)[4] = ret.form["X1"]
    /\ LastLine(ret.writes[2].filepath)[11] = ret.form["D2"]
    /\ ret.form["X1"] # ret.form["D2"]

\* The rows of a file, header left out, and whether a row has a valid
\* timestamp.
DataRows(p) == [i \in 1..(Len(files[p]) - 1) |-> files[p][i + 1]]

HasValidTimestamp(line) == Len(line[1]) = 7

ValidRows(p) == SelectSeq(DataRows(p), HasValidTimestamp)

\* The file the live reader opened is text whose last row has a blank or a
\* placeholder timestamp and which holds a row with a valid one.
TrailingInvalid(p) ==
    /\ decodable(files[p])
    /\ Len(files[p]) >= 2
    /\ ~HasValidTimestamp(LastLine(p))
    /\ ValidRows(p) # <<>>

Range(seq) == {seq[i] : i \in DOMAIN seq}

\* C17 as stated: when the trailing rows of the latest file of a category
\* have a blank or placeholder timestamp, the live reader of every category
\* returns the last row with a valid timestamp; the range read returns the
\* rows without a valid timestamp as well.
C17_Original ==
    /\ (ret.op = "get_latest" /\ ret.latest_file # None) =>
          (TrailingInvalid(ret.latest_file) =>
              /\ ret.value # None
              /\ ret.value.row = ValidRows(ret.latest_file)[Len(ValidRows(ret.latest_file))])
    /\ (ret.op = "read_data_by_range" /\ ret.exc = "none") =>
          \A i \in DOMAIN ret.paths :
             decodable(files[ret.paths[i]]) =>
                \A line \in Range(DataRows(ret.paths[i])) :
                   \E k \in DOMAIN ret.value : ret.value[k].values = line

\* The files of a category the range read is to return: matched by the
\* glob, dated within the range, and text.
GoodInRange(data_type, start_date, end_date) ==
    {p \in glob(data_type, files) :
        /\ decodable(files[p])
        /\ extract_date_from_filename(p).exc = "none"
        /\ date_le(start_date, extract_date_from_filename(p).date)
        /\ date_le(extract_date_from_filename(p).date, end_date)}

\* C18 as stated: a range scan skips a file that cannot be read and a file
\* whose name carries no parsable date, and still returns the rows of
\* every other matching file; it never aborts.
C18_Original ==
    ret.op = "read_data_by_range" =>
        /\ ret.exc = "none"
        /\ \A p \in GoodInRange(ret.data_type, ret.start_date, ret.end_date) :
              \A line \in Range(DataRows(p)) :
                 \E k \in DOMAIN ret.value : ret.value[k].values = line

\* What holds of C18: a file that is no text is skipped, and so is an
\* empty one; the rows of the other files in the range are returned.
C18_UnreadableSkipped ==
    (ret.op = "read_data_by_range" /\ ret.exc = "none") =>
        /\ \A p \in GoodInRange(ret.data_type, ret.start_date, ret.end_date) :
              \A line \in Range(DataRows(p)) :
                 \E k \in DOMAIN ret.value : ret.value[k].values = line
        /\ \A k \in DOMAIN ret.value :
              \E p \in GoodInRange(ret.data_type, ret.start_date, ret.end_date) :
                 ret.value[k].values \in Range(DataRows(p))

\* The lines file p held before the step, none when it did not exist.
Before(p) == IF p \in DOMAIN files THEN files[p] ELSE <<>>

\* The appends of the step that ended well, as <<path, row>>.
OkAppends ==
    IF ret'.op = "save_sensor_data"
    THEN {<<ret'.writes[i].filepath,
            IF i = 1 THEN photodiode_row(ret'.time, ret'.form)
            ELSE lasers_row(ret'.time, ret'.form)>> :
          i \in {j \in DOMAIN ret'.writes : ret'.writes[j].ok}}
    ELSE IF ret'.op = "poll_cycle" /\ ret'.wrote = "saved"
    THEN {<<ret'.filepath,
            <<ret'.time.ist_str, ret'.time.utc_str, ret'.time.mjd,
              ret'.com4_data.T1, ret'.com4_data.H1,
              ret'.com4_data.T2, ret'.com4_data.H2>> >>}
    ELSE {}

C21_Step ==
    /\ DOMAIN files \subseteq DOMAIN files'
    /\ \A p \in DOMAIN files' :
          /\ Len(files'[p]) >= Len(Before(p))
          /\ SubSeq(files'[p], 1, Len(Before(p))) = Before(p)
          /\ IF \E a \in OkAppends : a[1] = p
             THEN /\ \E a \in OkAppends : a[1] = p /\ files'[p][Len(files'[p])] = a[2]
                  /\ Len(files'[p]) =
                       Len(Before(p)) + 1 + (IF p \in DOMAIN files THEN 0 ELSE 1)
             ELSE files'[p] = Before(p)

\* C21: a successful append adds one data row at the end of its file (after
\* the header when it creates the file) and leaves the lines the file held
\* and every other file as they were; no step removes a file or a line.
C21_AppendOnly == [][C21_Step]_vars

\* C21 witness: a request appended a second row to the Photodiode file and
\* to the Lasers file, the header and the first row still in place.
C21_Witness ==
    /\ IsPush
    /\ ret.status = 200
    /\ \A i \in 1..2 :
          /\ Len(files[ret.writes[i].filepath]) = 3
          /\ history[ret.writes[i].filepath] = <<"ok", "ok">>
          /\ files[ret.writes[i].filepath][1] = HeaderOf(ret.writes[i].filepath)

\* A step that handled a POST to the legacy path.
IsLegacyStep == ret'.op = "save_sensor_data" /\ ret'.route = "/phpfiles/save_val.php"

C22_Step ==
    LET same(main) ==
            /\ ret'.status = main.status
            /\ ret'.body = main.body
            /\ ret'.writes = main.writes
            /\ files' = main.files
            /\ folders' = main.folders
    IN  IsLegacyStep =>
            same(save_sensor_data(ret'.form, clock, ret'.clocks[1], ret'.clocks[2],
                                  ret'.met[1], ret'.met[2], files, folders))

\* C22: a POST to /phpfiles/save_val.php yields what a POST of the same
\* request to /api/sensor-data yields on the same storage state, clock
\* readings and I/O faults: the same status, message, writes and files.
C22_LegacySameHandler == [][C22_Step]_vars

\* C22 witness: the legacy path stored a complete request, and it rejected
\* nothing: both rows are in their files.
C22_Witness ==
    /\ IsPush
    /\ ret.route = "/phpfiles/save_val.php"
    /\ ret.status = 200
    /\ \A i \in 1..2 : LastLine(ret.writes[i].filepath)[1] = ret.time.ist_str

\* C23 as stated: whatever appends failed with an I/O error, also the first
\* one after the file was created and before the header was written, every
\* non-empty partition file has the header of its category as first line.
C23_Original ==
    \A p \in DOMAIN files : files[p] # <<>> => files[p][1] = HeaderOf(p)

\* Every request handled at once has left write_to_csv.
AllDone == requests # <<>> /\ \A i \in DOMAIN requests : requests[i].pc = "done"

\* C24 as stated: two requests reach write_to_csv for one category while the
\* day's file is absent; under every interleaving the file ends with the
\* header exactly once, as its first line.
C24_Original ==
    (AllDone /\ ~ret.existed) =>
        \A i \in DOMAIN requests :
           /\ files[requests[i].filepath][1] = requests[i].headers
           /\ HeaderCount(files[requests[i].filepath], requests[i].filepath) = 1

\* What holds of C24: the header is written once when the second request
\* tests the file's existence after the first has opened it.
C24_OneHeaderWhenSeen ==
    (AllDone /\ ~ret.existed /\ \E i \in DOMAIN requests : requests[i].file_exists) =>
        \A i \in DOMAIN requests :
           HeaderCount(files[requests[i].filepath], requests[i].filepath) = 1

\* ------------------------------------------------------------------ C25

\* The attempt on which the port first opens, MAX_RETRIES when it never does.
FirstOpened(outcomes) ==
    IF \E i \in 1..MAX_RETRIES : outcomes[i] = "ok"
    THEN CHOOSE i \in 1..MAX_RETRIES :
            /\ outcomes[i] = "ok"
            /\ \A j \in 1..(i - 1) : outcomes[j] # "ok"
    ELSE MAX_RETRIES

\* get_com4_reader has returned: the attempts it made and what it returned.
C25_Connected ==
    ret.op = "get_com4_reader" =>
        /\ ret.attempts \in 1..MAX_RETRIES
        /\ ret.attempts = FirstOpened(ret.outcomes)
        /\ reader \in {"fetch_one", "dummy_fetch"}
        /\ reader = "dummy_fetch" <=>
              \A i \in 1..MAX_RETRIES : ret.outcomes[i] = "SerialException"

\* The reader has been called in a poll cycle: what it gave and what the
\* cycle did with it.
C25_Read ==
    ret.op = "poll_cycle" =>
        /\ reader = "dummy_fetch" => ret.com4_data = NoData
        /\ ret.input.io # "none" => ret.com4_data = NoData
        /\ \/ ret.com4_data = NoData
           \/ /\ DOMAIN ret.com4_data = {"kind", "T1", "H1", "T2", "H2", "TIMESTAMPS"}
              /\ ret.com4_data.kind = "data"
              /\ \A f \in {"T1", "H1", "T2", "H2"} : float_exc(ret.com4_data[f]) = "none"
              /\ ret.com4_data.TIMESTAMPS = ist_timestamp(ret.now)
        /\ ret.com4_data = NoData => ret.wrote = "no_data" /\ ret.exc = "none"

\* C25: get_com4_reader makes at most MAX_RETRIES attempts to open the port
\* and stops at the first that succeeds; when every attempt fails the reader
\* it returns gives None on every call; the reader never raises and gives
\* None or the four numbers T1, H1, T2, H2 with the TIMESTAMPS string, and a
\* cycle that got None writes nothing.
C25_ReaderNeverFails == C25_Connected /\ C25_Read

\* C25 witness: a poll cycle on the reader returned after three failed
\* attempts, the store holding rows the push path wrote.
C25_Witness ==
    /\ ret.op = "poll_cycle"
    /\ reader = "dummy_fetch"
    /\ ret.com4_data = NoData
    /\ ret.input.io = "none"
    /\ Len(ret.input.line) = 4
    /\ DOMAIN files # {}

\* ------------------------------------------------------------------ C26

\* A push request whose two writes both appended their row.
BothWritten ==
    /\ IsPush
    /\ Len(ret.writes) = 2
    /\ ret.writes[1].ok
    /\ ret.writes[2].ok

\* C26: the Photodiode row and the Lasers row of one push request are
\* appended to partition files that carry the same date in their names, at
\* whatever instant the request is handled.
C26_Original ==
    BothWritten => NameDate(ret.writes[1].filepath) = NameDate(ret.writes[2].filepath)

\* The two files carry the same date when the two clock readings of the
\* writes fall on the same day of the lab timezone.
C26_SameDayWhenReadSameDay ==
    (/\ BothWritten
     /\ strftime_date(datetime(ret.clocks[1], IST)) = strftime_date(datetime(ret.clocks[2], IST)))
        => /\ NameDate(ret.writes[1].filepath) = NameDate(ret.writes[2].filepath)
           /\ ret.writes[1].filepath.month_year = ret.writes[2].filepath.month_year

\* The largest max_points a caller passes.
MaxPoints == 3

\* The instants of three days on which the handlers ran: 2025-01-30 and
\* 2025-01-31 15:00 IST and 2025-02-01 03:00 IST.
PlotDays == <<StartEpoch - 86400, StartEpoch, StartEpoch + TickSeconds>>

\* The stores after up to MaxWrites poll cycles and as many push requests on
\* each of the first i days.
RECURSIVE BuiltOver(_)
BuiltOver(i) ==
    IF i = 0 THEN {[files |-> <<>>, folders |-> {}]}
    ELSE {RunTimes([now |-> PlotDays[i], op |-> "push"], k,
                   RunTimes([now |-> PlotDays[i], op |-> "poll"], k, st)) :
             k \in 0..MaxWrites, st \in BuiltOver(i - 1)}

\* The plot readers start on a store the handlers have built.
InitPlot ==
    /\ \E st \in BuiltOver(Len(PlotDays)) :
          /\ files = st.files
          /\ folders = st.folders
          /\ history = [p \in DOMAIN st.files |->
                           [i \in 1..(Len(st.files[p]) - 1) |-> "ok"]]
    /\ clock = StartEpoch + MaxTicks * TickSeconds + MaxWrites * POLL_INTERVAL
    /\ poll = "polling"
    /\ api_process = "running"
    /\ reader = "fetch_one"
    /\ requests = <<>>
    /\ dash = app_layout("dashh")
    /\ runs = MaxWrites
    /\ faults = 0
    /\ ret = [op |-> "none"]

GetTempHumidityPlotData ==
    /\ \E max_points \in 1..MaxPoints :
          ret' = [op |-> "get_plot_data", data_type |-> <<"Temp", "Humidity", "data">>,
                  max_points |-> max_points,
                  value |-> get_temp_humidity_plot_data(max_points, files)]
    /\ UNCHANGED <<clock, files, folders, poll, api_process, reader, requests, runs, faults, history, dash>>

GetLaserPlotData ==
    /\ \E max_points \in 1..MaxPoints :
          ret' = [op |-> "get_plot_data", data_type |-> <<"Lasers", "data">>,
                  max_points |-> max_points,
                  value |-> get_laser_plot_data(max_points, files)]
    /\ UNCHANGED <<clock, files, folders, poll, api_process, reader, requests, runs, faults, history, dash>>

NextPlot ==
    \/ GetTempHumidityPlotData
    \/ GetLaserPlotData

SpecPlot == InitPlot /\ [][NextPlot]_vars

\* ------------------------------------------------------------------ C27

\* The files of a category in the order of the dates in their names.
RECURSIVE by_date(_)
by_date(S) ==
    IF S = {} THEN <<>>
    ELSE LET first == CHOOSE x \in S : \A y \in S : date_le(NameDate(x), NameDate(y))
         IN  <<first>> \o by_date(S \ {first})

\* The rows of a category, oldest first.
RowsOldestFirst(data_type) == extend_all(by_date(glob(data_type, files)), files)

\* The MJD column of rows.
MjdOf(rows) == [i \in 1..Len(rows) |-> row_get(rows[i], "MJD")]

\* C27: the plot readers with limit max_points return the max_points most
\* recent rows of the category, all rows when fewer exist, oldest first,
\* also when the rows lie in more than one daily file.
C27_Original ==
    ret.op = "get_plot_data" =>
        ret.value.data[1] = MjdOf(last_points(RowsOldestFirst(ret.data_type), ret.max_points))

\* The rows returned are the most recent ones, oldest first, when the file
\* that sorts last by its path is the newest and holds max_points rows or
\* more, or is the only file.
C27_WithinTheLastFile ==
    LET paths == sorted(glob(ret.data_type, files))
    IN  (/\ ret.op = "get_plot_data"
         /\ paths # <<>>
         /\ paths[Len(paths)] = by_date(glob(ret.data_type, files))[Len(paths)]
         /\ \/ Len(paths) = 1
            \/ Len(files[paths[Len(paths)]]) - 1 >= ret.max_points)
        => ret.value.data[1] = MjdOf(last_points(RowsOldestFirst(ret.data_type), ret.max_points))

\* ------------------------------------------------------------------ C28

\* The calendar day the clock reading t falls on in the lab timezone.
DayOf(t) ==
    LET dt == datetime(t, IST) IN <<dt.year, dt.month, dt.day>>

\* The last line of the file is among the rows.
ReturnsLastLine(rows, filepath) ==
    \E k \in DOMAIN rows : rows[k].values = LastLine(filepath)

\* A row has been appended to filepath on day d: read_data_by_date of the
\* category and d reads that file, the glob of get_csv_files matches it, and
\* read_data_by_range returns the row for every range that holds d.
Addressed(filepath, d) ==
    /\ date_path(filepath.dir, d) = filepath
    /\ ReturnsLastLine(read_data_by_date(filepath.dir, d, files), filepath)
    /\ filepath \in glob(filepath.dir, files)
    /\ \A start_date \in Dates, end_date \in Dates :
          (date_le(start_date, d) /\ date_le(d, end_date)) =>
             ReturnsLastLine(read_data_by_range(filepath.dir, start_date,
                                                end_date, files).value, filepath)

\* C28: the read path addresses the file the write path appended to: for a
\* row appended on day d, read_data_by_date of the category and d, and the
\* glob of get_csv_files, find that file, and read_data_by_range returns the
\* row for any range containing d.
C28_Original ==
    /\ IsPush =>
          \A i \in DOMAIN ret.writes :
             ret.writes[i].ok => Addressed(ret.writes[i].filepath, DayOf(ret.clocks[i]))
    /\ (ret.op = "poll_cycle" /\ ret.wrote = "saved") =>
          Addressed(ret.filepath, DayOf(ret.clocks[2]))

\* The file the row went to starts with the header of its category.
Headed(filepath) == files[filepath][1][1] = "timestamp"

\* The row is found as C28 says when the file starts with its header and,
\* in the poll path, both clock readings of get_csv_path fall in one month.
C28_AddressedWhenHeaded ==
    /\ IsPush =>
          \A i \in DOMAIN ret.writes :
             (ret.writes[i].ok /\ Headed(ret.writes[i].filepath))
                => Addressed(ret.writes[i].filepath, DayOf(ret.clocks[i]))
    /\ (/\ ret.op = "poll_cycle"
        /\ ret.wrote = "saved"
        /\ Headed(ret.filepath)
        /\ DayOf(ret.clocks[1])[2] = DayOf(ret.clocks[2])[2])
          => Addressed(ret.filepath, DayOf(ret.clocks[2]))

\* The path of read_data_by_date alone.
C28_PathOfDay ==
    (ret.op = "poll_cycle" /\ ret.wrote = "saved") =>
        date_path(ret.filepath.dir, DayOf(ret.clocks[2])) = ret.filepath

\* The rows of read_data_by_range alone, the path being that of the day.
C28_RowReturned ==
    IsPush =>
       \A i \in DOMAIN ret.writes :
          ret.writes[i].ok =>
             ReturnsLastLine(read_data_by_range(ret.writes[i].filepath.dir,
                                                DayOf(ret.clocks[i]), DayOf(ret.clocks[i]),
                                                files).value,
                             ret.writes[i].filepath)

\* ------------------------------------------------------------------ C29

\* main has ended: start_api_server gave None, KeyboardInterrupt ended it in
\* get_com4_reader, or the loop was left.
MainEnded == poll \in {"exited", "interrupted", "stopped", "crashed"}

\* The loop runs only beside the running server, and every way out of the
\* loop terminates the server.
C29_LoopCoupled ==
    /\ poll = "polling" => api_process = "running"
    /\ poll \in {"stopped", "crashed"} => api_process = "terminated"
    /\ poll = "exited" => api_process = "none"

\* C29: the poll loop starts only if the server subprocess was started; when
\* the loop ends, by a shutdown signal or an uncaught exception, the
\* subprocess is terminated; the server is never left running once the poll
\* process no longer polls, and never terminated while the loop runs.
C29_Original ==
    /\ C29_LoopCoupled
    /\ MainEnded => api_process # "running"

\* ------------------------------------------------- the dashboard in use

\* Navigation clicks over a run.
MaxClicks == 3

\* Interval ticks over a run.
MaxIntervals == 2

\* A dashboard has been built over an empty store or the store after one
\* push request.
InitNav ==
    /\ \E app \in Apps : dash = app_layout(app)
    /\ \E st \in {[files |-> <<>>, folders |-> {}],
                  RunTimes([now |-> StartEpoch, op |-> "push"], 1,
                           [files |-> <<>>, folders |-> {}])} :
          /\ files = st.files
          /\ folders = st.folders
          /\ history = [p \in DOMAIN st.files |->
                           [i \in 1..(Len(st.files[p]) - 1) |-> "ok"]]
    /\ clock = StartEpoch + MaxTicks * TickSeconds + MaxWrites * POLL_INTERVAL
    /\ poll = "polling"
    /\ api_process = "running"
    /\ reader = "fetch_one"
    /\ requests = <<>>
    /\ runs = MaxWrites
    /\ faults = 0
    /\ ret = [op |-> "none"]

\* The clicks made on all links.
RECURSIVE Clicks(_)
Clicks(n_clicks) ==
    IF n_clicks = <<>> THEN 0 ELSE n_clicks[1] + Clicks(Tail(n_clicks))

\* The outputs of navigate_pages are put into the page.
Navigated(button_id, n_clicks, out) ==
    /\ dash' = [dash EXCEPT !.loaded = TRUE,
                            !.main_content = out[1],
                            !.current_page = out[2],
                            !.className = [i \in DOMAIN LinkIds(dash.app) |-> out[2 + i]],
                            !.n_clicks = n_clicks]
    /\ ret' = [op |-> "navigate_pages", button_id |-> button_id]

\* The page is loaded: navigate_pages is called with nothing triggered.
Load ==
    /\ ~dash.loaded
    /\ Navigated("", dash.n_clicks, navigate_pages(dash.app, "", dash.current_page))
    /\ UNCHANGED <<clock, files, folders, poll, api_process, reader, requests, runs, faults, history>>

\* A navigation link is clicked.
Click ==
    /\ dash.loaded
    /\ Clicks(dash.n_clicks) < MaxClicks
    /\ \E i \in DOMAIN LinkIds(dash.app) :
          Navigated(LinkIds(dash.app)[i],
                    [dash.n_clicks EXCEPT ![i] = @ + 1],
                    navigate_pages(dash.app, LinkIds(dash.app)[i], dash.current_page))
    /\ UNCHANGED <<clock, files, folders, poll, api_process, reader, requests, runs, faults, history>>

\* A periodic callback has run: PreventUpdate leaves every output as it was.
Updated(callback, out) ==
    /\ dash' = [dash EXCEPT
                  !.n_intervals = @ + 1,
                  !.shown = IF out.raised = "PreventUpdate" THEN @
                            ELSE [c \in DOMAIN @ \cup {callback.name} |->
                                     IF c = callback.name THEN out.outputs ELSE @[c]]]
    /\ ret' = [op |-> callback.name, page |-> callback.page, raised |-> out.raised]

\* An interval fires one of the periodic callbacks, whose request may have
\* been made before the page was changed.
Interval ==
    /\ dash.loaded
    /\ dash.n_intervals < MaxIntervals
    /\ \E callback \in PeriodicCallbacks(dash.app) :
          Updated(callback, periodic_update(callback, dash.n_intervals + 1,
                                            dash.current_page, files))
    /\ UNCHANGED <<clock, files, folders, poll, api_process, reader, requests, runs, faults, history>>

NextNav ==
    \/ Load
    \/ Click
    \/ Interval

SpecNav == InitNav /\ [][NextNav]_vars

\* ------------------------------------------------------------------ C30

\* The page a link leads to and the layout a page shows.
PageOfLink(link) ==
    CASE link = "home-link"           -> "home"
      [] link = "temp-humidity-link"  -> "temp-humidity"
      [] link = "laser-link"          -> "lasers"
      [] link = "photodiode-link"     -> "photodiodes"
      [] link = "data-retrieval-link" -> "data-retrieval"

LayoutOfPage(page) ==
    CASE page = "home"           -> "home_layout"
      [] page = "temp-humidity"  -> "temp_humidity_layout"
      [] page = "lasers"         -> "lasers_layout"
      [] page = "photodiodes"    -> "photodiodes_layout"
      [] page = "data-retrieval" -> "data_retrieval_layout"

\* After the navigation callback has run: one link is active, the link of
\* the current page, and the content is the layout of that page.
C30_OneActive ==
    dash.loaded =>
        /\ Cardinality({i \in DOMAIN dash.className :
                           dash.className[i] = "nav-link active"}) = 1
        /\ \A i \in DOMAIN dash.className :
              dash.className[i] = "nav-link active"
                 <=> PageOfLink(LinkIds(dash.app)[i]) = dash.current_page
        /\ \A i \in DOMAIN dash.className :
              dash.className[i] \in {"nav-link", "nav-link active"}
        /\ dash.main_content = LayoutOfPage(dash.current_page)

\* A periodic callback that ran while current-page named another page raised
\* PreventUpdate and changed nothing of the page.
C30_Step ==
    (/\ ret'.op \in {c.name : c \in PeriodicCallbacks(dash.app)}
     /\ ret'.page # dash.current_page)
        => /\ ret'.raised = "PreventUpdate"
           /\ dash'.shown = dash.shown
           /\ dash'.current_page = dash.current_page
           /\ dash'.main_content = dash.main_content
           /\ dash'.className = dash.className

\* C30: after any sequence of navigation clicks exactly one link has the
\* class 'nav-link active', it is the link of the page in 'current-page',
\* and the main content is the layout of that page; the periodic callbacks
\* of a page change nothing while 'current-page' names another page.
C30_Navigation == []C30_OneActive /\ [][C30_Step]_vars

\* C30 witness: after three clicks the lasers page is shown, its link the
\* only active one, something was shown on another page before, and the
\* photodiode values callback has just raised PreventUpdate.
C30_Witness ==
    /\ dash.app = "dashh"
    /\ Clicks(dash.n_clicks) = 3
    /\ dash.current_page = "lasers"
    /\ dash.className = <<"nav-link", "nav-link", "nav-link active", "nav-link", "nav-link">>
    /\ dash.main_content = "lasers_layout"
    /\ DOMAIN dash.shown # {}
    /\ ret.op = "update_photodiode_values"
    /\ ret.raised = "PreventUpdate"

====
